---- MODULE Spec2Model ----
(***************************************************************************)
(* Streaming session protocol of the xgb-model trading server.             *)
(*                                                                         *)
(* Two front ends exist in the repository and both are modelled:           *)
(*   - tcp_connection.handle_client: one session per accepted connection,  *)
(*     with read_message framing the byte stream into lines (Spec);        *)
(*   - data_handler.DataHandler.process_data_chunk, the chunk framing used *)
(*     by main.ApplicationCoordinator (SpecDH).                            *)
(*                                                                         *)
(* Text is a sequence of one-character strings.  The wire carries bytes:   *)
(* every ASCII character is one byte and the only non-ASCII character of   *)
(* the model, U+00E9, is the two bytes C3 A9.                              *)
(*                                                                         *)
(* The window sizes of config.py are scaled down (see the definitions);    *)
(* the scaling keeps what the code relies on: RETRAIN_INTERVAL divides     *)
(* TRAINING_WINDOW and equals the minimum number of training rows.         *)
(***************************************************************************)
EXTENDS Integers, Sequences, FiniteSets, TLC

\* config.TRAINING_WINDOW (5000 in config.py), scaled.
TRAINING_WINDOW == 4
\* config.RETRAIN_INTERVAL (100 in config.py), scaled.
RETRAIN_INTERVAL == 2
\* train_model's minimum number of training rows (100 in model.py), scaled.
MIN_TRAINING_ROWS == 2
\* config.BUFFER_SIZE, the largest number of bytes one recv returns.
BUFFER_SIZE == 4096
\* Rows whose Lagged_Return is NaN: pct_change().shift(1) leaves the first two.
LAGGED_RETURN_NAN_ROWS == 2
\* Largest price handle_client accepts.
MAX_PRICE == 100000
\* The number of lines a client may have sent that the session has not yet
\* taken out of its buffer.
MaxInFlight == 2
\* The number of bytes of such lines, line breaks included.
MaxPending == 16

NL == "\n"
DELIMITER == <<"|", "|">>
Whitespace == {" ", "\r", "\t"}
Digits == {"0", "1", "2"}

Min(a, b) == IF a < b THEN a ELSE b

(***************************************************************************)
(* Python string operations, on sequences of characters.                   *)
(***************************************************************************)
\* c in s
Contains(s, c) == \E i \in 1..Len(s) : s[i] = c

\* position of the first occurrence of the sequence d in s, 0 if none (str.find + 1)
Find(s, d) ==
    LET hits == {i \in 1..(Len(s) - Len(d) + 1) :
                    \A j \in 1..Len(d) : s[i + j - 1] = d[j]}
    IN IF hits = {} THEN 0 ELSE CHOOSE i \in hits : \A k \in hits : i <= k

\* s.split(d, 1) for a d that occurs in s: the text before and after the first d
SplitOnce(s, d) ==
    LET i == Find(s, d)
    IN [head |-> SubSeq(s, 1, i - 1), tail |-> SubSeq(s, i + Len(d), Len(s))]

\* s.split(d): every piece, empty ones included
RECURSIVE Split(_, _)
Split(s, d) ==
    IF Find(s, d) = 0 THEN <<s>>
    ELSE <<SplitOnce(s, d).head>> \o Split(SplitOnce(s, d).tail, d)

\* s.strip()
RECURSIVE LStrip(_)
LStrip(s) == IF s # <<>> /\ Head(s) \in (Whitespace \cup {NL}) THEN LStrip(Tail(s)) ELSE s
RECURSIVE RStrip(_)
RStrip(s) ==
    IF s # <<>> /\ s[Len(s)] \in (Whitespace \cup {NL})
    THEN RStrip(SubSeq(s, 1, Len(s) - 1)) ELSE s
Strip(s) == RStrip(LStrip(s))

\* [f(x) for x in seq if p(x)] building blocks
RECURSIVE SelectNonBlankStripped(_)
SelectNonBlankStripped(lines) ==
    IF lines = <<>> THEN <<>>
    ELSE (IF Strip(Head(lines)) # <<>> THEN <<Strip(Head(lines))>> ELSE <<>>)
         \o SelectNonBlankStripped(Tail(lines))

\* value of a non-empty sequence of digits
RECURSIVE DigitsValue(_)
DigitsValue(s) ==
    IF s = <<>> THEN 0
    ELSE 10 * DigitsValue(SubSeq(s, 1, Len(s) - 1))
         + (CASE s[Len(s)] = "0" -> 0 [] s[Len(s)] = "1" -> 1 [] OTHER -> 2)

\* float(text): surrounding whitespace is ignored, an optional sign, then digits;
\* anything else raises ValueError (ok = FALSE).
ToFloat(text) ==
    LET t == Strip(text)
        neg == t # <<>> /\ Head(t) = "-"
        body == IF neg THEN Tail(t) ELSE t
        ok == body # <<>> /\ \A i \in 1..Len(body) : body[i] \in Digits
    IN [ok |-> ok,
        val |-> IF ok THEN (IF neg THEN 0 - DigitsValue(body) ELSE DigitsValue(body)) ELSE 0]

\* pd.Timestamp.now(): the clock reads the time that the text "T" denotes.
NOW == 2

\* pd.to_datetime(text): [ok, val].  "S" and "T" stand for two well-formed
\* timestamp texts, "S" the earlier one; the other texts that the model puts in
\* a timestamp field are not dates (ok = FALSE is a raised exception).
ToDatetime(text) ==
    [ok |-> Strip(text) \in {<<"S">>, <<"T">>},
     val |-> IF Strip(text) = <<"S">> THEN NOW - 1 ELSE NOW]
ToDatetimeOk(text) == ToDatetime(text).ok

\* bytes.decode('utf-8') of one chunk: a lead byte C3 must be followed, in the
\* same chunk, by its continuation byte A9; a continuation byte alone is invalid.
RECURSIVE decode(_)
decode(bytes) ==
    IF bytes = <<>> THEN [ok |-> TRUE, text |-> <<>>]
    ELSE IF Head(bytes) = "C3"
         THEN IF Len(bytes) >= 2 /\ bytes[2] = "A9"
              THEN LET r == decode(SubSeq(bytes, 3, Len(bytes)))
                   IN [ok |-> r.ok, text |-> <<"U+E9">> \o r.text]
              ELSE [ok |-> FALSE, text |-> <<>>]
         ELSE IF Head(bytes) = "A9"
              THEN [ok |-> FALSE, text |-> <<>>]
              ELSE LET r == decode(Tail(bytes))
                   IN [ok |-> r.ok, text |-> <<Head(bytes)>> \o r.text]

\* str.encode('utf-8') of the client's text
RECURSIVE encode(_)
encode(text) ==
    IF text = <<>> THEN <<>>
    ELSE (IF Head(text) = "U+E9" THEN <<"C3", "A9">> ELSE <<Head(text)>>) \o encode(Tail(text))


(***************************************************************************)
(* The window (df) is a sequence of rows.  A row keeps the five numeric    *)
(* columns and whether its feature columns hold values (feat); dfCols says *)
(* whether the frame has the feature columns at all.                       *)
(***************************************************************************)
Row(t, o, h, l, c, v) ==
    [Timestamp |-> t, Open |-> o, High |-> h, Low |-> l, Close |-> c, Volume |-> v,
     feat |-> FALSE]
\* the placeholder where no row results
NoRow == Row(0, 0, 0, 0, 0, 0)

FEATURES == <<"RSI", "EMA_Diff", "Price_VWAP_Diff", "Lagged_Return", "Above_VWAP">>
None == <<>>

\* a model handle; NoModel is Python's None
NoModel == [fitted |-> FALSE, rows |-> 0]

RECURSIVE SelectSixFields(_)
SelectSixFields(lines) ==
    IF lines = <<>> THEN <<>>
    ELSE (IF Len(Split(Head(lines), <<",">>)) = 6 THEN <<Split(Head(lines), <<",">>)>> ELSE <<>>)
         \o SelectSixFields(Tail(lines))

\* The conversion of the parsed six-field lines to a frame: pd.to_datetime on
\* the first column and astype(float) on the others raise if any cell fails.
convert_parsed(parsed_data) ==
    IF parsed_data = <<>> THEN [ok |-> FALSE, rows |-> <<>>]
    ELSE IF \E i \in 1..Len(parsed_data) :
               \/ ~ToDatetimeOk(parsed_data[i][1])
               \/ \E k \in 2..6 : ~ToFloat(parsed_data[i][k]).ok
         THEN [ok |-> FALSE, rows |-> <<>>]
         ELSE [ok |-> TRUE,
               rows |-> [i \in 1..Len(parsed_data) |->
                           Row(ToDatetime(parsed_data[i][1]).val,
                               ToFloat(parsed_data[i][2]).val, ToFloat(parsed_data[i][3]).val,
                               ToFloat(parsed_data[i][4]).val, ToFloat(parsed_data[i][5]).val,
                               ToFloat(parsed_data[i][6]).val)]]

\* process_historical_data(data_str): [ok, rows]; ok = FALSE is a raised exception.
\* Lines without six fields are skipped; a six-field line whose timestamp or
\* numbers do not convert makes the whole call raise; the OHLC and volume
\* checks only log a warning.
process_historical_data(data_str) ==
    convert_parsed(SelectSixFields(SelectNonBlankStripped(Split(data_str, <<NL>>))))

\* prepare_features(df) when the indicator computations return: every row gets
\* the feature columns; Lagged_Return is NaN in the first two rows.  (Whether the
\* computations return or raise is an input of the caller: indicators.py of this
\* repository reads lower-case column names, which the window does not have.)
prepare_features(df) ==
    [i \in 1..Len(df) |-> [df[i] EXCEPT !.feat = (i > LAGGED_RETURN_NAN_ROWS)]]

\* train_df of train_model: the rows of the last TRAINING_WINDOW that dropna()
\* keeps.  Next_Close is NaN in the last row; a feature column is NaN where the
\* row has no feature values.
TrainingRows(df, cols) ==
    {i \in 1..Len(df) : /\ i > Len(df) - TRAINING_WINDOW
                        /\ i < Len(df)
                        /\ (cols => df[i].feat)}

\* train_model(df, features): [ok, model]; ok = FALSE is a raised exception.
\* fitOk is whether the split, fit and evaluation of the classifier return.
train_model(df, cols, feats, fitOk) ==
    IF feats = None \/ df = <<>> THEN [ok |-> FALSE, model |-> NoModel]
    ELSE IF Cardinality(TrainingRows(df, cols)) < MIN_TRAINING_ROWS
         THEN [ok |-> FALSE, model |-> NoModel]
         ELSE IF ~cols \/ ~fitOk                  \* train_df[features]: KeyError
              THEN [ok |-> FALSE, model |-> NoModel]
              ELSE [ok |-> TRUE,
                    model |-> [fitted |-> TRUE, rows |-> Cardinality(TrainingRows(df, cols))]]

\* confidence_threshold of generate_signals, in percent
CONFIDENCE_THRESHOLD == 60
RSI_OVERBOUGHT == 70
RSI_OVERSOLD == 30

\* What the classifier and the indicators give generate_signals for the latest
\* row: featOk (prepare_features returns), latestOk (the latest feature row has
\* no NaN), predictOk (model.predict and predict_proba return), the predicted
\* class, max probability in percent, the sign of price - VWAP and the RSI.
SignalInputs ==
    [featOk : BOOLEAN, latestOk : BOOLEAN, predictOk : BOOLEAN, prediction : 0..2,
     max_prob : {59, 60, 61}, price_vwap : {-1, 0, 1}, rsi : {30, 50, 70}]

\* generate_signals without its except branch: the exception reaches the caller
generate_signals_Raises(df, sig) ==
    IF ~sig.featOk THEN "raise"
    ELSE IF Len(df) <= LAGGED_RETURN_NAN_ROWS \/ ~sig.latestOk THEN "HOLD"
    ELSE IF ~sig.predictOk THEN "raise"
    ELSE IF sig.max_prob < CONFIDENCE_THRESHOLD THEN "HOLD"
    ELSE IF sig.prediction = 1
         THEN (IF sig.price_vwap > 0 /\ sig.rsi < RSI_OVERBOUGHT THEN "BUY" ELSE "HOLD")
    ELSE IF sig.prediction = 2
         THEN (IF sig.price_vwap < 0 /\ sig.rsi > RSI_OVERSOLD THEN "SELL" ELSE "HOLD")
    ELSE "HOLD"

\* generate_signals holding also at a probability equal to the threshold
generate_signals_HoldsAtThreshold(df, sig) ==
    IF ~sig.featOk THEN "HOLD"
    ELSE IF Len(df) <= LAGGED_RETURN_NAN_ROWS \/ ~sig.latestOk THEN "HOLD"
    ELSE IF ~sig.predictOk THEN "HOLD"
    ELSE IF sig.max_prob <= CONFIDENCE_THRESHOLD THEN "HOLD"
    ELSE IF sig.prediction = 1
         THEN (IF sig.price_vwap > 0 /\ sig.rsi < RSI_OVERBOUGHT THEN "BUY" ELSE "HOLD")
    ELSE IF sig.prediction = 2
         THEN (IF sig.price_vwap < 0 /\ sig.rsi > RSI_OVERSOLD THEN "SELL" ELSE "HOLD")
    ELSE "HOLD"

\* generate_signals without the comparison of the price with the VWAP
generate_signals_IgnoresVwap(df, sig) ==
    IF ~sig.featOk THEN "HOLD"
    ELSE IF Len(df) <= LAGGED_RETURN_NAN_ROWS \/ ~sig.latestOk THEN "HOLD"
    ELSE IF ~sig.predictOk THEN "HOLD"
    ELSE IF sig.max_prob < CONFIDENCE_THRESHOLD THEN "HOLD"
    ELSE IF sig.prediction = 1
         THEN (IF sig.rsi < RSI_OVERBOUGHT THEN "BUY" ELSE "HOLD")
    ELSE IF sig.prediction = 2
         THEN (IF sig.rsi > RSI_OVERSOLD THEN "SELL" ELSE "HOLD")
    ELSE "HOLD"

\* generate_signals(df, model, features)
generate_signals(df, sig) ==
    IF ~sig.featOk THEN "HOLD"                               \* except Exception
    ELSE IF Len(df) <= LAGGED_RETURN_NAN_ROWS \/ ~sig.latestOk THEN "HOLD"
    ELSE IF ~sig.predictOk THEN "HOLD"                       \* except Exception
    ELSE IF sig.max_prob < CONFIDENCE_THRESHOLD THEN "HOLD"
    ELSE IF sig.prediction = 1
         THEN (IF sig.price_vwap > 0 /\ sig.rsi < RSI_OVERBOUGHT THEN "BUY" ELSE "HOLD")
    ELSE IF sig.prediction = 2
         THEN (IF sig.price_vwap < 0 /\ sig.rsi > RSI_OVERSOLD THEN "SELL" ELSE "HOLD")
    ELSE "HOLD"

(***************************************************************************)
(* handle_client: the body of the message loop.                            *)
(***************************************************************************)
\* the checks without the comparison of the prices with each other
check_bar_NoOhlc(q, ts) ==
    IF \E k \in 1..5 : ~q[k].ok THEN [status |-> "INVALID_DATA", row |-> NoRow]
    ELSE IF \E k \in 1..4 : q[k].val <= 0 \/ q[k].val > MAX_PRICE
         THEN [status |-> "INVALID_DATA", row |-> NoRow]
    ELSE IF q[5].val < 0 THEN [status |-> "INVALID_DATA", row |-> NoRow]
    ELSE IF ~ts.ok THEN [status |-> "INVALID_DATA", row |-> NoRow]
    ELSE [status |-> "ok", row |-> Row(ts.val, q[1].val, q[2].val, q[3].val, q[4].val, q[5].val)]

\* The checks on the five numbers q (each a float() result) of a real-time
\* line and on its timestamp ts (a pd.to_datetime result): status "ok" with the row to append, or the status
\* token sent for the rejected line.
check_bar(q, ts) ==
    IF \E k \in 1..5 : ~q[k].ok THEN [status |-> "INVALID_DATA", row |-> NoRow]
    ELSE IF ~(/\ 0 < q[3].val /\ q[3].val <= q[2].val
              /\ q[3].val <= q[1].val /\ q[1].val <= q[2].val
              /\ q[3].val <= q[4].val /\ q[4].val <= q[2].val)
         THEN [status |-> "INVALID_DATA", row |-> NoRow]
    ELSE IF \E k \in 1..4 : q[k].val <= 0 \/ q[k].val > MAX_PRICE
         THEN [status |-> "INVALID_DATA", row |-> NoRow]
    ELSE IF q[5].val < 0 THEN [status |-> "INVALID_DATA", row |-> NoRow]
    ELSE IF ~ts.ok THEN [status |-> "INVALID_DATA", row |-> NoRow]
    ELSE [status |-> "ok", row |-> Row(ts.val, q[1].val, q[2].val, q[3].val, q[4].val, q[5].val)]

\* validate_bar answering a short line with a status of its own
validate_bar_OtherToken(parts) ==
    IF Len(parts) < 5 THEN [status |-> "INVALID_FORMAT", row |-> NoRow]
    ELSE IF Len(parts) > 6 THEN [status |-> "INVALID_DATA", row |-> NoRow]
    ELSE check_bar([k \in 1..5 |-> ToFloat(parts[k + Len(parts) - 5])],
                   IF Len(parts) = 5 THEN [ok |-> TRUE, val |-> NOW]
                   ELSE ToDatetime(parts[1]))

\* The validation of a real-time line split into parts: fewer than five parts
\* is ERROR, more than six INVALID_DATA; with five parts the timestamp is the
\* current time, with six it is the first part.
validate_bar(parts) ==
    IF Len(parts) < 5 THEN [status |-> "ERROR", row |-> NoRow]
    ELSE IF Len(parts) > 6 THEN [status |-> "INVALID_DATA", row |-> NoRow]
    ELSE check_bar([k \in 1..5 |-> ToFloat(parts[k + Len(parts) - 5])],
                   IF Len(parts) = 5 THEN [ok |-> TRUE, val |-> NOW]
                   ELSE ToDatetime(parts[1]))

\* the trim applied as soon as the window is longer than TRAINING_WINDOW
append_bar_TrimsAtWindow(df, row) ==
    LET d == Append(df, row)
    IN IF Len(d) > TRAINING_WINDOW
       THEN SubSeq(d, Len(d) - TRAINING_WINDOW + 1, Len(d))
       ELSE d

\* df = pd.concat([df, new_row]); if len(df) > 2 * TRAINING_WINDOW: df = df.tail(TRAINING_WINDOW)
append_bar(df, row) ==
    LET d == Append(df, row)
    IN IF Len(d) > TRAINING_WINDOW * 2
       THEN SubSeq(d, Len(d) - TRAINING_WINDOW + 1, Len(d))
       ELSE d

\* the signal block without its condition
signal_ready_Ungated(hpc, mdl) == TRUE

\* if historical_processing_complete and model is not None
signal_ready(hpc, mdl) == hpc /\ mdl.fitted

\* if len(df) % config.RETRAIN_INTERVAL == 0
retrain_due(df) == Len(df) % RETRAIN_INTERVAL = 0

\* One effect of a loop iteration, with the model handle and the phase flag as
\* they are right after it.
Ev(op, arg, ok, mdl, hpc) == [op |-> op, arg |-> arg, ok |-> ok, model |-> mdl, hpc |-> hpc]

\* an effect op is among evs
HasOp(evs, op) == \E i \in 1..Len(evs) : evs[i].op = op
\* the place of the first effect op in evs (0 if none)
IndexOf(evs, op) ==
    IF HasOp(evs, op) THEN CHOOSE i \in 1..Len(evs) :
                               evs[i].op = op /\ \A j \in 1..(i - 1) : evs[j].op # op
    ELSE 0

\* the tokens passed to send_response among the effects evs, in order
RECURSIVE Sent(_)
Sent(evs) ==
    IF evs = <<>> THEN <<>>
    ELSE (IF Head(evs).op = "send" THEN <<Head(evs).arg>> ELSE <<>>) \o Sent(Tail(evs))

\* The session state a loop iteration works on.
Session(d, cols, mdl, feats, hpc) ==
    [df |-> d, cols |-> cols, model |-> mdl, features |-> feats, hpc |-> hpc]

\* the except branch leaving the flag set
historical_failed_FlagSet(s, d, cols, feats, evs, sendOk) ==
    [s |-> Session(d, cols, s.model, feats, TRUE),
     ev |-> evs \o <<Ev("send", "HISTORICAL_ERROR", sendOk, s.model, TRUE)>>]

\* the model handle cleared together with the flag
historical_failed_DropsModel(s, d, cols, feats, evs, sendOk) ==
    [s |-> Session(d, cols, NoModel, feats, FALSE),
     ev |-> evs \o <<Ev("send", "HISTORICAL_ERROR", sendOk, NoModel, FALSE)>>]

\* The except branch of the historical block: the flag is cleared and
\* HISTORICAL_ERROR is sent; d, cols, feats are what the try block had assigned.
historical_failed(s, d, cols, feats, evs, sendOk) ==
    [s |-> Session(d, cols, s.model, feats, FALSE),
     ev |-> evs \o <<Ev("send", "HISTORICAL_ERROR", sendOk, s.model, FALSE)>>]

\* a failed training leaving the flag as it was
historical_trained_FlagKept(s, f, t, sendOk) ==
    IF ~t.ok
    THEN [s |-> Session(f, TRUE, s.model, FEATURES, s.hpc),
          ev |-> <<Ev("load", "", TRUE, s.model, s.hpc),
                   Ev("train", "", FALSE, s.model, s.hpc),
                   Ev("send", "HISTORICAL_ERROR", sendOk, s.model, s.hpc)>>]
    ELSE [s |-> Session(f, TRUE, t.model, FEATURES, TRUE),
          ev |-> <<Ev("load", "", TRUE, s.model, s.hpc),
                   Ev("train", "", TRUE, t.model, s.hpc),
                   Ev("send", "HISTORICAL_PROCESSED", sendOk, t.model, TRUE)>>]

\* model = train_model(df, features) and what follows it in the try block;
\* f is the frame prepare_features returned, t the result of train_model.
historical_trained(s, f, t, sendOk) ==
    IF ~t.ok
    THEN historical_failed(s, f, TRUE, FEATURES,
                           <<Ev("load", "", TRUE, s.model, s.hpc),
                             Ev("train", "", FALSE, s.model, s.hpc)>>, sendOk)
    ELSE [s |-> Session(f, TRUE, t.model, FEATURES, TRUE),
          ev |-> <<Ev("load", "", TRUE, s.model, s.hpc),
                   Ev("train", "", TRUE, t.model, s.hpc),
                   Ev("send", "HISTORICAL_PROCESSED", sendOk, t.model, TRUE)>>]

\* a load that clears the window before the batch text is parsed
historical_loaded_WindowFirst(s, p, featOk, fitOk, sendOk) ==
    IF ~p.ok
    THEN historical_failed(s, <<>>, FALSE, s.features,
                           <<Ev("load", "", FALSE, s.model, s.hpc)>>, sendOk)
    ELSE IF ~featOk
         THEN historical_failed(s, p.rows, FALSE, s.features,
                                <<Ev("load", "", TRUE, s.model, s.hpc)>>, sendOk)
         ELSE historical_trained(s, prepare_features(p.rows),
                                 train_model(prepare_features(p.rows), TRUE, FEATURES, fitOk),
                                 sendOk)

\* df = process_historical_data(...); df, features = prepare_features(df); p is
\* the result of process_historical_data.
historical_loaded(s, p, featOk, fitOk, sendOk) ==
    IF ~p.ok
    THEN historical_failed(s, s.df, s.cols, s.features,
                           <<Ev("load", "", FALSE, s.model, s.hpc)>>, sendOk)
    ELSE IF ~featOk
         THEN historical_failed(s, p.rows, FALSE, s.features,
                                <<Ev("load", "", TRUE, s.model, s.hpc)>>, sendOk)
         ELSE historical_trained(s, prepare_features(p.rows),
                                 train_model(prepare_features(p.rows), TRUE, FEATURES, fitOk),
                                 sendOk)

\* The historical branch (DELIMITER in message).  featOk, fitOk: whether
\* prepare_features and the classifier fit return; sendOk: whether the socket
\* write succeeds.  Result: the session state after it and the effects in order.
handle_historical(s, message, featOk, fitOk, sendOk) ==
    historical_loaded(s, process_historical_data(Split(message, DELIMITER)[1]),
                      featOk, fitOk, sendOk)

\* the retrain block placed before the signal block
bar_accepted_RetrainFirst(s, d, response, t, sendOk) ==
    [s |-> Session(d, s.cols,
                   IF retrain_due(d) /\ t.ok THEN t.model ELSE s.model,
                   s.features, s.hpc),
     ev |-> <<Ev("append", "", TRUE, s.model, s.hpc)>>
            \o (IF retrain_due(d)
                THEN <<Ev("retrain", "", t.ok, IF t.ok THEN t.model ELSE s.model, s.hpc)>>
                ELSE <<>>)
            \o <<Ev("send", response, sendOk, s.model, s.hpc)>>]

\* a failed retrain reported to the client
bar_accepted_ReportsFailure(s, d, response, t, sendOk) ==
    [s |-> Session(d, s.cols,
                   IF retrain_due(d) /\ t.ok THEN t.model ELSE s.model,
                   s.features, s.hpc),
     ev |-> <<Ev("append", "", TRUE, s.model, s.hpc),
              Ev("send", response, sendOk, s.model, s.hpc)>>
            \o (IF retrain_due(d)
                THEN <<Ev("retrain", "", t.ok, IF t.ok THEN t.model ELSE s.model, s.hpc)>>
                     \o (IF t.ok THEN <<>>
                         ELSE <<Ev("send", "ERROR", sendOk, s.model, s.hpc)>>)
                ELSE <<>>)]

\* The signal block and the retrain block for an accepted bar: d is the window
\* after the append, response the token of the signal block, t the result of
\* train_model on d.  The response is sent, then the retrain block runs.
bar_accepted(s, d, response, t, sendOk) ==
    [s |-> Session(d, s.cols,
                   IF retrain_due(d) /\ t.ok THEN t.model ELSE s.model,
                   s.features, s.hpc),
     ev |-> <<Ev("append", "", TRUE, s.model, s.hpc)>>
            \o (IF signal_ready(s.hpc, s.model)
                THEN <<Ev("score", response, TRUE, s.model, s.hpc)>> ELSE <<>>)
            \o <<Ev("send", response, sendOk, s.model, s.hpc)>>
            \o (IF retrain_due(d)
                THEN <<Ev("retrain", "", t.ok, IF t.ok THEN t.model ELSE s.model, s.hpc)>>
                ELSE <<>>)]

\* The real-time branch after the append; d is the window with the new row.
bar_appended(s, d, sig, fitOk, sendOk) ==
    bar_accepted(s, d,
                 IF signal_ready(s.hpc, s.model) THEN generate_signals(d, sig) ELSE "LEARNING",
                 train_model(d, s.cols, s.features, fitOk), sendOk)

\* a rejected line left without a response
bar_validated_NoReply(s, v, sig, fitOk, sendOk) ==
    IF v.status # "ok"
    THEN [s |-> s, ev |-> <<>>]
    ELSE bar_appended(s, append_bar(s.df, v.row), sig, fitOk, sendOk)

\* The real-time branch after the validation; v is the result of validate_bar.
bar_validated(s, v, sig, fitOk, sendOk) ==
    IF v.status # "ok"
    THEN [s |-> s, ev |-> <<Ev("send", v.status, sendOk, s.model, s.hpc)>>]
    ELSE bar_appended(s, append_bar(s.df, v.row), sig, fitOk, sendOk)

\* The real-time branch.  sig: what generate_signals is given; fitOk: whether
\* the classifier fit of a periodic retrain returns.
handle_bar(s, message, sig, fitOk, sendOk) ==
    bar_validated(s, validate_bar(Split(message, <<",">>)), sig, fitOk, sendOk)

(***************************************************************************)
(* data_handler.DataHandler                                                *)
(***************************************************************************)
\* DataHandler.__init__
NewDataHandler == [df |-> <<>>, historical_delimiter_seen |-> FALSE, data_buffer |-> <<>>]

\* The conversions of _parse_bar_data on the six parts of a line; a ValueError
\* makes it return None (ok = FALSE).  No check relates the prices.
parse_bar_fields(parts) ==
    IF ~ToDatetimeOk(parts[1]) \/ \E k \in 2..6 : ~ToFloat(parts[k]).ok
    THEN [ok |-> FALSE, row |-> NoRow]
    ELSE [ok |-> TRUE,
          row |-> Row(ToDatetime(parts[1]).val,
                      ToFloat(parts[2]).val, ToFloat(parts[3]).val, ToFloat(parts[4]).val,
                      ToFloat(parts[5]).val, ToFloat(parts[6]).val)]

\* DataHandler._parse_bar_data(data): exactly six fields
parse_bar_data(data) ==
    IF Len(Split(data, <<",">>)) # 6
    THEN [ok |-> FALSE, row |-> NoRow]
    ELSE parse_bar_fields(Split(data, <<",">>))

\* DataHandler._add_bar_to_dataframe
add_bar_to_dataframe(d, row) ==
    IF Len(d) + 1 > TRAINING_WINDOW * 2
    THEN SubSeq(Append(d, row), Len(d) + 2 - TRAINING_WINDOW, Len(d) + 1)
    ELSE Append(d, row)

\* The loop "while '\n' in self.data_buffer" of process_data_chunk: d is
\* self.df, buf self.data_buffer, bars real_time_bars.
RECURSIVE drain_lines(_, _, _)
\* an empty line ending the loop
drain_line_StopsAtBlank(d, rest, bars, blank, b) ==
    IF blank
    THEN [df |-> d, data_buffer |-> rest, real_time_bars |-> bars]
    ELSE IF ~b.ok
         THEN drain_lines(d, rest, bars)
         ELSE drain_lines(add_bar_to_dataframe(d, b.row), rest, Append(bars, b.row))

\* one iteration of it: b is the result of _parse_bar_data on the stripped line
drain_line(d, rest, bars, blank, b) ==
    IF blank \/ ~b.ok
    THEN drain_lines(d, rest, bars)
    ELSE drain_lines(add_bar_to_dataframe(d, b.row), rest, Append(bars, b.row))

drain_lines(d, buf, bars) ==
    IF ~Contains(buf, NL)
    THEN [df |-> d, data_buffer |-> buf, real_time_bars |-> bars]
    ELSE drain_line(d, SplitOnce(buf, <<NL>>).tail, bars,
                    Strip(SplitOnce(buf, <<NL>>).head) = <<>>,
                    parse_bar_data(Strip(SplitOnce(buf, <<NL>>).head)))

\* What process_data_chunk returns and leaves in the object after its loop; r
\* is the result of the loop, historical_data the batch text ("" if none).
chunk_result(seen, historical_processed, historical_data, r) ==
    [self |-> [df |-> r.df, historical_delimiter_seen |-> seen,
               data_buffer |-> r.data_buffer],
     raised |-> FALSE,
     historical_processed |-> historical_processed,
     historical_data |-> historical_data,
     real_time_bars |-> r.real_time_bars]

\* the batch added to the rows the object already holds
chunk_batch_Extends(self, historical_data, rest, p) ==
    IF ~p.ok
    THEN [self |-> [self EXCEPT !.data_buffer = rest],
          raised |-> TRUE,
          historical_processed |-> FALSE,
          historical_data |-> <<>>,
          real_time_bars |-> <<>>]
    ELSE chunk_result(TRUE, TRUE, historical_data, drain_lines(self.df \o p.rows, rest, <<>>))

\* the flag set as soon as the delimiter is found
chunk_batch_FlagFirst(self, historical_data, rest, p) ==
    IF ~p.ok
    THEN [self |-> [self EXCEPT !.data_buffer = rest,
                                !.historical_delimiter_seen = TRUE],
          raised |-> TRUE,
          historical_processed |-> FALSE,
          historical_data |-> <<>>,
          real_time_bars |-> <<>>]
    ELSE chunk_result(TRUE, TRUE, historical_data, drain_lines(p.rows, rest, <<>>))

\* The delimiter block of process_data_chunk: p is the result of
\* process_historical_data, which may raise after the buffer was cut.
chunk_batch(self, historical_data, rest, p) ==
    IF ~p.ok
    THEN [self |-> [self EXCEPT !.data_buffer = rest],
          raised |-> TRUE,
          historical_processed |-> FALSE,
          historical_data |-> <<>>,
          real_time_bars |-> <<>>]
    ELSE chunk_result(TRUE, TRUE, historical_data, drain_lines(p.rows, rest, <<>>))

\* process_data_chunk once self.data_buffer += chunk has given buf
chunk_framed(self, buf) ==
    IF Find(buf, DELIMITER) # 0
    THEN chunk_batch(self, SplitOnce(buf, DELIMITER).head, SplitOnce(buf, DELIMITER).tail,
                     process_historical_data(SplitOnce(buf, DELIMITER).head))
    ELSE chunk_result(self.historical_delimiter_seen, FALSE, <<>>,
                      drain_lines(self.df, buf, <<>>))

\* DataHandler.process_data_chunk(chunk)
process_data_chunk(self, chunk) == chunk_framed(self, self.data_buffer \o chunk)

\* What one call frames: the historical batch, if any, then the bars.
Frames(r) ==
    (IF r.historical_processed
     THEN <<[kind |-> "batch", text |-> r.historical_data, row |-> NoRow]>>
     ELSE <<>>)
    \o [i \in 1..Len(r.real_time_bars) |->
          [kind |-> "bar", text |-> <<>>, row |-> r.real_time_bars[i]]]

(***************************************************************************)
(* The session of handle_client and its environment.                       *)
(***************************************************************************)
VARIABLES
    wire,                \* bytes the client has sent that recv has not returned yet
    peerClosed,          \* the client has closed its end of the connection
    shutdown_event,      \* tcp_connection.shutdown_event
    pc,                  \* where the session is: "recv", "yield" or how it ended
    buffer,              \* read_message's buffer
    df, dfCols,          \* handle_client's df
    model, features,     \* handle_client's model and features
    historical_processing_complete,
    events,              \* the effects of the latest loop iteration, in order
    owed,                \* lines sent by the client and not yet taken from the buffer
    sinceRetrain,        \* accepted bars since the latest retrain attempt (-1: none
                         \* since the session began or since the latest batch)
    payload,             \* how far the client is into a historical payload
    processedSent,       \* HISTORICAL_PROCESSED has been sent on this connection
    dh,                  \* a DataHandler object
    feed,                \* the payload fed to it: what is left and the frames so far
    frames,              \* the DataFrame objects alive, by reference
    snapshot,            \* the reference get_dataframe returned (0: none yet)
    given,               \* what the classifier and the indicators give generate_signals
    signal,              \* what generate_signals returned ("" before the call)
    engine,              \* the TradingEngine of the ApplicationCoordinator
    call,                \* the latest ApplicationCoordinator.process_data_chunk call
    sent,                \* the chunks each connection has passed to the coordinator
    model_lock,          \* handle_client's model_lock is held
    at,                  \* the statement of the loop body the session is at
    fit,                 \* the classifier train_model is building (NoFit: none)
    scoredWith,          \* the model the latest generate_signals call was given
    mainAt,              \* the statement of start_server the main thread is at
    handler,             \* signal_handler running on the main thread: statement, join index
    server_socket,       \* tcp_connection.server_socket: "open" or "closed"
    client_threads,      \* tcp_connection.client_threads: the state of each thread
    accepted,            \* connections server_socket.accept() has returned
    signals,             \* SIGINT and SIGTERM delivered so far
    timedOut             \* the threads whose join(timeout=2.0) timed out

sessionVars == <<wire, peerClosed, shutdown_event, pc, buffer, df, dfCols, model, features,
                 historical_processing_complete, events, owed, sinceRetrain,
                 payload, processedSent>>
dhVars == <<dh, feed>>
signalVars == <<frames, snapshot, given, signal>>
coordVars == <<engine, call, sent>>
lockVars == <<model_lock, at, fit, scoredWith>>
serverVars == <<mainAt, handler, server_socket, client_threads, accepted, signals, timedOut>>
unitVars == <<signalVars, coordVars, lockVars, serverVars>>
vars == <<sessionVars, dhVars, unitVars>>

\* The lines a client sends (each is followed by a line break on the wire).
Bar5 == <<"1", ",", "1", ",", "1", ",", "1", ",", "1">>
Bar6 == <<"T", ",">> \o Bar5
ClientLines ==
    { Bar5,                                        \* open,high,low,close,volume
      Bar6,                                        \* timestamp,open,...,volume
      Bar6 \o DELIMITER,                           \* a record followed by the delimiter
      DELIMITER,                                   \* the delimiter alone
      <<"1", ",", "2">>,                           \* two fields
      <<"1", ",", "1", ",", "2", ",", "1", ",", "1">>,   \* high < low
      <<" ">>,                                     \* a blank line
      <<"U+E9">> }                                 \* a non-ASCII character

\* k records separated by line breaks
RECURSIVE BatchText(_)
BatchText(k) == IF k = 1 THEN Bar6 ELSE BatchText(k - 1) \o <<NL>> \o Bar6

Closed == pc \in {"eof", "error", "stopped"}

\* The smallest batch train_model accepts: the rows whose Lagged_Return is NaN
\* and the last row (Next_Close is NaN) are dropped.
MinBatchRows == MIN_TRAINING_ROWS + LAGGED_RETURN_NAN_ROWS + 1

\* the client's progress through "row NL row NL ... row DELIMITER NL" from the
\* start of the connection: rows counts the rows sent (it stops at
\* MinBatchRows), st is "rows" while only rows were sent, "done" right after
\* the delimiter line, "off" otherwise
PayloadAfter(p, line) ==
    IF p.st = "rows" /\ line = Bar6
    THEN [st |-> "rows", rows |-> Min(p.rows + 1, MinBatchRows)]
    ELSE IF p.st = "rows" /\ line = Bar6 \o DELIMITER
         THEN [st |-> "done", rows |-> Min(p.rows + 1, MinBatchRows)]
         ELSE [st |-> "off", rows |-> 0]

NoPayload == [st |-> "off", rows |-> 0]

NoFeed == [rest |-> <<>>, frames |-> <<>>, whole |-> <<>>, n |-> 0, raised |-> FALSE]

\* The objects of the other specifications, not in use.
\* the connections whose chunks reach the coordinator
MaxConns == 2
Conns == 1..MaxConns

\* TradingEngine.__init__
NewTradingEngine == [model_ready |-> FALSE, historical_training_complete |-> FALSE,
                     bar_count |-> 0]
\* before the first call
NoCall == [conn |-> 0, lines |-> 0, responses |-> <<>>, raised |-> FALSE,
           bars |-> <<>>, historical |-> FALSE, batch |-> <<>>, window |-> <<>>,
           trained |-> FALSE, decision |-> ""]

\* train_model is not running
NoFit == [rows |-> 0]

\* signal_handler is not running
NoHandler == [at |-> "none", i |-> 0]

UnitIdle ==
    /\ mainAt = "check"
    /\ handler = NoHandler
    /\ server_socket = "open"
    /\ client_threads = <<>>
    /\ accepted = 0
    /\ signals = 0
    /\ timedOut = {}
    /\ model_lock = FALSE
    /\ at = "loop"
    /\ fit = NoFit
    /\ scoredWith = NoModel
    /\ frames = <<>>
    /\ snapshot = 0
    /\ given = [featOk |-> FALSE, latestOk |-> FALSE, predictOk |-> FALSE, prediction |-> 0,
                max_prob |-> 59, price_vwap |-> 0, rsi |-> 50]
    /\ signal = ""
    /\ engine = NewTradingEngine
    /\ call = NoCall
    /\ sent = [c \in Conns |-> <<>>]

SessionInit ==
    /\ wire = <<>>
    /\ peerClosed = FALSE
    /\ shutdown_event = FALSE
    /\ pc = "recv"
    /\ buffer = <<>>
    /\ df = <<>>
    /\ dfCols = FALSE
    /\ model = NoModel
    /\ features = None
    /\ historical_processing_complete = FALSE
    /\ events = <<>>
    /\ owed = <<>>
    /\ sinceRetrain = -1
    /\ payload = [st |-> "rows", rows |-> 0]
    /\ processedSent = FALSE

Init ==
    /\ SessionInit
    /\ UnitIdle
    /\ dh = NewDataHandler
    /\ feed = NoFeed

\* bytes of the lines in q, with their line breaks
RECURSIVE PendingSize(_)
PendingSize(q) ==
    IF q = <<>> THEN 0 ELSE Len(encode(Head(q))) + 1 + PendingSize(Tail(q))

\* where read_message goes on: its inner loop while the buffer holds a line break
NextPc(buf) == IF Contains(buf, NL) THEN "yield" ELSE "recv"

\* The client writes one line and its line break.
ClientSend(line) ==
    /\ ~peerClosed
    /\ ~Closed
    /\ Len(owed) < MaxInFlight
    /\ PendingSize(owed) + Len(encode(line)) + 1 <= MaxPending
    /\ wire' = wire \o encode(line) \o <<NL>>
    /\ owed' = Append(owed, line)
    /\ payload' = PayloadAfter(payload, line)
    /\ events' = <<>>
    /\ UNCHANGED <<peerClosed, shutdown_event, pc, buffer, df, dfCols, model, features,
                   historical_processing_complete, sinceRetrain, processedSent>>
    /\ UNCHANGED <<dhVars, unitVars>>

\* The client closes the connection.
ClientClose ==
    /\ ~peerClosed
    /\ peerClosed' = TRUE
    /\ events' = <<>>
    /\ UNCHANGED <<wire, shutdown_event, pc, buffer, df, dfCols, model, features,
                   historical_processing_complete, owed, sinceRetrain,
                   payload, processedSent>>
    /\ UNCHANGED <<dhVars, unitVars>>

\* signal_handler: shutdown_event.set()
Shutdown ==
    /\ ~shutdown_event
    /\ shutdown_event' = TRUE
    /\ events' = <<>>
    /\ UNCHANGED <<wire, peerClosed, pc, buffer, df, dfCols, model, features,
                   historical_processing_complete, owed, sinceRetrain,
                   payload, processedSent>>
    /\ UNCHANGED <<dhVars, unitVars>>

\* handle_client returns: its locals are gone and the finally block closes the
\* socket, which discards what was in flight.
EndSession(how) ==
    /\ pc' = how
    /\ wire' = <<>>
    /\ buffer' = <<>>
    /\ df' = <<>>
    /\ dfCols' = FALSE
    /\ model' = NoModel
    /\ features' = None
    /\ historical_processing_complete' = FALSE
    /\ events' = <<>>
    /\ sinceRetrain' = -1
    /\ payload' = NoPayload
    /\ UNCHANGED <<peerClosed, shutdown_event, owed, processedSent>>
    /\ UNCHANGED <<dhVars, unitVars>>

\* read_message: recv returns the first n bytes in flight; the chunk is decoded
\* and added to the buffer, or the decoding raises and read_message returns.
RecvChunk(n) ==
    /\ pc = "recv"
    /\ ~shutdown_event
    /\ n \in 1..Min(Len(wire), BUFFER_SIZE)
    /\ IF decode(SubSeq(wire, 1, n)).ok
       THEN /\ wire' = SubSeq(wire, n + 1, Len(wire))
            /\ buffer' = buffer \o decode(SubSeq(wire, 1, n)).text
            /\ pc' = NextPc(buffer')
            /\ events' = <<>>
            /\ UNCHANGED <<peerClosed, shutdown_event, df, dfCols, model, features,
                           historical_processing_complete, owed, sinceRetrain,
                           payload, processedSent>>
            /\ UNCHANGED <<dhVars, unitVars>>
       ELSE EndSession("error")

\* read_message: recv returns no data (the client is gone); the session ends.
RecvEof ==
    /\ pc = "recv"
    /\ ~shutdown_event
    /\ peerClosed
    /\ wire = <<>>
    /\ EndSession("eof")

\* read_message: while not shutdown_event.is_set() ends the generator.
SessionStop ==
    /\ pc = "recv"
    /\ shutdown_event
    /\ EndSession("stopped")

\* line, buffer = buffer.split('\n', 1)
NextLine == SplitOnce(buffer, <<NL>>)
\* the message read_message yields for it
NextMessage == Strip(NextLine.head)

\* what every iteration of read_message's inner loop does to the buffer
TakeLine ==
    /\ pc = "yield"
    /\ buffer' = NextLine.tail
    /\ owed' = IF owed = <<>> THEN <<>> ELSE Tail(owed)
    /\ UNCHANGED <<wire, peerClosed, shutdown_event, payload>>
    /\ UNCHANGED <<dhVars, unitVars>>

\* A line that is blank after strip() is not yielded.
SkipBlank ==
    /\ TakeLine
    /\ NextMessage = <<>>
    /\ pc' = NextPc(buffer')
    /\ events' = <<>>
    /\ UNCHANGED <<df, dfCols, model, features, historical_processing_complete,
                   sinceRetrain, processedSent>>

\* if not message or shutdown_event.is_set(): break.  The line was taken from
\* the buffer and gets no response.
BreakOnShutdown ==
    /\ pc = "yield"
    /\ NextMessage # <<>>
    /\ shutdown_event
    /\ EndSession("stopped")

\* whether send_response's socket write can fail
SendOutcomes == IF peerClosed THEN BOOLEAN ELSE {TRUE}

Current == Session(df, dfCols, model, features, historical_processing_complete)

Install(r) ==
    /\ df' = r.s.df
    /\ dfCols' = r.s.cols
    /\ model' = r.s.model
    /\ features' = r.s.features
    /\ historical_processing_complete' = r.s.hpc
    /\ events' = r.ev
    /\ processedSent' = (processedSent \/ Contains(Sent(r.ev), "HISTORICAL_PROCESSED"))

\* A yielded message that holds the delimiter.
HandleHistorical ==
    /\ TakeLine
    /\ NextMessage # <<>>
    /\ ~shutdown_event
    /\ Find(NextMessage, DELIMITER) # 0
    /\ \E featOk \in BOOLEAN, fitOk \in BOOLEAN, sendOk \in SendOutcomes :
       \E r \in {handle_historical(Current, NextMessage, featOk, fitOk, sendOk)} :
          Install(r)
    /\ sinceRetrain' = -1
    /\ pc' = NextPc(buffer')

\* what generate_signals is given when it is not called
NoSignal == [featOk |-> FALSE, latestOk |-> FALSE, predictOk |-> FALSE, prediction |-> 0,
             max_prob |-> 59, price_vwap |-> 0, rsi |-> 50]

\* A yielded message without the delimiter.
HandleBar ==
    /\ TakeLine
    /\ NextMessage # <<>>
    /\ ~shutdown_event
    /\ Find(NextMessage, DELIMITER) = 0
    /\ \E fitOk \in BOOLEAN, sendOk \in SendOutcomes :
       \E sig \in IF signal_ready(historical_processing_complete, model)
                  THEN SignalInputs ELSE {NoSignal} :
       \E r \in {handle_bar(Current, NextMessage, sig, fitOk, sendOk)} :
          /\ Install(r)
          /\ sinceRetrain' = IF HasOp(r.ev, "retrain") THEN 0
                             ELSE IF HasOp(r.ev, "append") /\ sinceRetrain >= 0
                                  THEN sinceRetrain + 1
                                  ELSE sinceRetrain
    /\ pc' = NextPc(buffer')

Next ==
    \/ \E line \in ClientLines : ClientSend(line)
    \/ ClientClose
    \/ Shutdown
    \/ \E n \in 1..Min(Len(wire), BUFFER_SIZE) : RecvChunk(n)
    \/ RecvEof
    \/ SessionStop
    \/ SkipBlank
    \/ BreakOnShutdown
    \/ HandleHistorical
    \/ HandleBar

Spec == Init /\ [][Next]_vars

(***************************************************************************)
(* Properties of the handle_client session (Spec).                         *)
(***************************************************************************)
\* q joined, every line with its line break
RECURSIVE JoinLines(_)
JoinLines(q) == IF q = <<>> THEN <<>> ELSE Head(q) \o <<NL>> \o JoinLines(Tail(q))

\* C2: as long as no shutdown was requested, the lines the client sent and
\* read_message has not delivered yet are exactly the text in its buffer
\* followed by the text still to be received, whatever chunks recv returned
\* (so every line is delivered once, in order, and a partial line stays
\* buffered), and the session has ended only on end of stream with nothing
\* left undelivered.
C2_LinesDeliveredOnce ==
    ~shutdown_event =>
        IF pc = "eof" THEN owed = <<>>
        ELSE /\ pc \in {"recv", "yield"}
             /\ decode(wire).ok
             /\ buffer \o decode(wire).text = JoinLines(owed)

ResponseTokens ==
    {"HISTORICAL_PROCESSED", "HISTORICAL_ERROR", "LEARNING", "HOLD", "BUY", "SELL",
     "ERROR", "INVALID_DATA"}

\* every value generate_signals returns
SignalTokens == {generate_signals(d, sig) : d \in {<<>>, [i \in 1..3 |-> Row(NOW, 1, 1, 1, 1, 1)]},
                                            sig \in SignalInputs}

\* C4: every token passed to send_response is one of the eight response
\* tokens, and generate_signals returns nothing but HOLD, BUY and SELL (a
\* fact about the function alone, which the initial state suffices to evaluate).
C4_ResponseTokens ==
    /\ \A i \in 1..Len(events) : events[i].op = "send" => events[i].arg \in ResponseTokens
    /\ Init => SignalTokens = {"HOLD", "BUY", "SELL"}

\* a line was answered INVALID_DATA
C4_Witness == Sent(events) = <<"INVALID_DATA">>

\* C5: when a fresh session has been sent MinBatchRows valid six-field lines
\* separated by line breaks and ended by the delimiter, and has handled all of
\* it, the whole payload is the window, the session is READY and the response
\* is HISTORICAL_PROCESSED.
C5_PayloadBulkLoaded ==
    (/\ payload = [st |-> "done", rows |-> MinBatchRows]
     /\ owed = <<>> /\ events # <<>> /\ ~peerClosed /\ ~shutdown_event) =>
        /\ Len(df) = MinBatchRows
        /\ historical_processing_complete /\ model.fitted
        /\ Sent(events) = <<"HISTORICAL_PROCESSED">>

\* a batch text of MinBatchRows records, as the historical block would get it
\* from a message holding the line breaks
TrainableBatch == BatchText(MinBatchRows) \o DELIMITER

\* the historical block given a batch that trains, in the current state
LaterBatch == handle_historical(Current, TrainableBatch, TRUE, TRUE, TRUE)

\* C6: after an iteration of the historical block that did not train a model,
\* the flag is clear (valid bars are answered LEARNING), the one response is
\* HISTORICAL_ERROR and the session still reads; the historical block, given
\* then a batch that trains, sets the flag, installs the model and answers
\* HISTORICAL_PROCESSED; and while the flag is clear an accepted bar is
\* answered LEARNING.
C6_HistoricalFailure ==
    /\ (HasOp(events, "load") /\ ~(HasOp(events, "train") /\ events[IndexOf(events, "train")].ok)) =>
          /\ ~historical_processing_complete
          /\ Sent(events) = <<"HISTORICAL_ERROR">>
          /\ pc \in {"recv", "yield"}
          /\ LaterBatch.s.hpc /\ LaterBatch.s.model.fitted
          /\ Len(LaterBatch.s.df) = MinBatchRows
          /\ Sent(LaterBatch.ev) = <<"HISTORICAL_PROCESSED">>
    /\ (HasOp(events, "append") /\ ~historical_processing_complete) =>
          Sent(events) = <<"LEARNING">>

\* a batch was loaded, failed to train, and a further line is waiting
C6_Witness ==
    /\ HasOp(events, "train")
    /\ Sent(events) = <<"HISTORICAL_ERROR">>
    /\ Len(df) = 1
    /\ pc = "yield"

\* C7: a decision (HOLD, BUY, SELL) is sent only on a connection on which
\* HISTORICAL_PROCESSED was sent; before that, an accepted bar is in the window
\* and is answered LEARNING, also after retrain attempts.
C7_NoDecisionBeforeProcessed ==
    /\ (\E i \in 1..Len(events) :
           events[i].op = "send" /\ events[i].arg \in {"HOLD", "BUY", "SELL"}) => processedSent
    /\ (~processedSent /\ HasOp(events, "append")) =>
          /\ Sent(events) = <<"LEARNING">>
          /\ df # <<>>

\* a bar answered LEARNING after a retrain had been attempted
C7_Witness ==
    /\ ~processedSent
    /\ Sent(events) = <<"LEARNING">>
    /\ sinceRetrain = 1
    /\ Len(df) > RETRAIN_INTERVAL

C9_RetrainEveryInterval ==
    [][(pc = "yield" /\ HasOp(events', "retrain") /\ sinceRetrain >= 0)
          => sinceRetrain + 1 = RETRAIN_INTERVAL]_vars

MaxBatchRows == 2
MaxBarLines == 2

BarLine == <<"T", ",", "2", ",", "2", ",", "2", ",", "2", ",", "2">>

\* m bar lines, each with its line break
RECURSIVE BarsText(_)
BarsText(m) == IF m = 0 THEN <<>> ELSE BarsText(m - 1) \o BarLine \o <<NL>>

DHPayloads ==
    {BatchText(k) \o DELIMITER \o sep \o BarsText(m) :
        k \in 1..MaxBatchRows, m \in 0..MaxBarLines, sep \in {<<>>, <<NL>>}}

InitDH ==
    /\ SessionInit
    /\ UnitIdle
    /\ dh = NewDataHandler
    /\ \E p \in DHPayloads : feed = [NoFeed EXCEPT !.rest = p, !.whole = p]

\* The caller passes the next n characters of the payload.
DHFeed(n) ==
    /\ n \in 1..Min(Len(feed.rest), BUFFER_SIZE)
    /\ \E r \in {process_data_chunk(dh, SubSeq(feed.rest, 1, n))} :
          /\ dh' = r.self
          /\ feed' = [feed EXCEPT !.rest = SubSeq(feed.rest, n + 1, Len(feed.rest)),
                                  !.frames = feed.frames \o Frames(r)]
    /\ UNCHANGED <<sessionVars, unitVars>>

NextDH == \E n \in 1..Min(Len(feed.rest), BUFFER_SIZE) : DHFeed(n)

SpecDH == InitDH /\ [][NextDH]_vars

\* The same payload given to a new DataHandler in a single call.
SingleChunk == process_data_chunk(NewDataHandler, feed.whole)

\* C1: however the payload (a historical batch, the delimiter, bar lines) is
\* cut into consecutive chunks, once all of it was fed the frames are those of
\* feeding it as a single chunk (one batch with the same text, then the same
\* bars in the same order) and the window is the same.
C1_ChunkingInvariantFraming ==
    (feed.whole # <<>> /\ feed.rest = <<>>) =>
        /\ feed.frames = Frames(SingleChunk)
        /\ dh.df = SingleChunk.self.df

(***************************************************************************)
(* Both front ends given the same input, one line at a time: the message   *)
(* loop of handle_client gets the line as a message, the DataHandler gets  *)
(* it as a chunk with its line break.  A batch input holds the delimiter   *)
(* and may hold several records, as process_historical_data expects.       *)
(***************************************************************************)
\* The number of inputs of one run.
MaxInputs == 3

BarS == <<"S", ",">> \o Bar5
LowAboveHigh == <<"T", ",", "1", ",", "1", ",", "2", ",", "1", ",", "1">>
NonNumeric == <<"T", ",", "x", ",", "1", ",", "1", ",", "1", ",", "1">>
TwoFields == <<"1", ",", "2">>
FourFields == <<"1", ",", "1", ",", "1", ",", "1">>
SevenFields == Bar6 \o <<",", "1">>
BadStamp == <<"x", ",">> \o Bar5

\* The volumes of the records of a numbered batch, written with the digits of
\* Digits: the k-th record has a volume of its own.
Numeral == << <<"1">>, <<"2">>, <<"1", "0">>, <<"1", "1">>, <<"1", "2">>, <<"2", "0">>,
              <<"2", "1">>, <<"2", "2">>, <<"1", "0", "0">> >>
NumberedRecord(k) == <<"T", ",", "1", ",", "1", ",", "1", ",", "1", ",">> \o Numeral[k]
RECURSIVE NumberedBatch(_)
NumberedBatch(k) ==
    IF k = 1 THEN NumberedRecord(1) ELSE NumberedBatch(k - 1) \o <<NL>> \o NumberedRecord(k)

BarInputs == {Bar5, Bar6, BarS, LowAboveHigh, NonNumeric, FourFields, SevenFields, BadStamp}

BatchInputs ==
    { Bar6 \o DELIMITER,                                  \* one record
      BatchText(MinBatchRows) \o DELIMITER,               \* enough records to train
      NumberedBatch(2 * TRAINING_WINDOW) \o DELIMITER,    \* a full window
      NumberedBatch(2 * TRAINING_WINDOW + 1) \o DELIMITER, \* one record more
      Bar6 \o <<NL>> \o BarS \o DELIMITER,                \* the later record first
      LowAboveHigh \o DELIMITER,                          \* low above high
      NonNumeric \o <<NL>> \o Bar6 \o DELIMITER,          \* a non-numeric cell
      TwoFields \o <<NL>> \o Bar6 \o DELIMITER,           \* a line of two fields
      DELIMITER,                                          \* no record
      Bar6 \o DELIMITER \o Bar5 }                         \* a bar after the delimiter

\* What generate_signals is given in these runs: a confident prediction of
\* class 1 above the VWAP or of class 2 below it (BUY, SELL), and a feature
\* computation that raises (HOLD).
SignalCases ==
    {sig \in SignalInputs : /\ sig.latestOk /\ sig.predictOk /\ sig.rsi = 50
                            /\ sig.max_prob > CONFIDENCE_THRESHOLD
                            /\ sig.prediction # 0 /\ sig.price_vwap # 0
                            /\ (sig.price_vwap > 0 <=> sig.prediction = 1)}

InitLines ==
    /\ SessionInit
    /\ UnitIdle
    /\ dh = NewDataHandler
    /\ feed = NoFeed

\* DataHandler.process_data_chunk(m + "\n"); the caller sees what it returns
\* or the exception of process_historical_data.
LinesChunk(m) ==
    \E c \in {process_data_chunk(dh, m \o <<NL>>)} :
       /\ dh' = c.self
       /\ feed' = [rest |-> <<>>, frames |-> Frames(c), whole |-> m,
                   n |-> feed.n + 1, raised |-> c.raised]

\* A message that holds the delimiter.
LinesHistorical(m) ==
    /\ feed.n < MaxInputs
    /\ Find(m, DELIMITER) # 0
    /\ \E p \in {process_historical_data(Split(m, DELIMITER)[1])} :
       \E featOk \in BOOLEAN, fitOk \in BOOLEAN, sendOk \in SendOutcomes :
       \E r \in {historical_loaded(Current, p, featOk, fitOk, sendOk)} :
          Install(r)
    /\ sinceRetrain' = -1
    /\ LinesChunk(m)
    /\ UNCHANGED <<wire, peerClosed, shutdown_event, pc, buffer, owed, payload>>
    /\ UNCHANGED unitVars

\* A message without the delimiter.
LinesBar(m) ==
    /\ feed.n < MaxInputs
    /\ Find(m, DELIMITER) = 0
    /\ \E fitOk \in BOOLEAN, sendOk \in SendOutcomes :
       \E sig \in IF signal_ready(historical_processing_complete, model)
                  THEN SignalCases ELSE {NoSignal} :
       \E r \in {handle_bar(Current, m, sig, fitOk, sendOk)} :
          /\ Install(r)
          /\ sinceRetrain' = IF HasOp(r.ev, "retrain") THEN 0
                             ELSE IF HasOp(r.ev, "append") /\ sinceRetrain >= 0
                                  THEN sinceRetrain + 1
                                  ELSE sinceRetrain
    /\ LinesChunk(m)
    /\ UNCHANGED <<wire, peerClosed, shutdown_event, pc, buffer, owed, payload>>
    /\ UNCHANGED unitVars

NextLines ==
    \/ \E m \in BatchInputs : LinesHistorical(m)
    \/ \E m \in BarInputs : LinesBar(m)

SpecLines == InitLines /\ [][NextLines]_vars

(***************************************************************************)
(* Claims about the session phase and the window, checked on SpecLines.    *)
(***************************************************************************)
\* READY: valid bars are answered with a decision.
Ready == signal_ready(historical_processing_complete, model)

RejectedLines == {FourFields, SevenFields, NonNumeric, LowAboveHigh, BadStamp}

\* a valid bar line given now is appended and answered with LEARNING or a decision
ValidBarProcessed ==
    \A m \in {Bar5, Bar6} :
       \E sig \in IF Ready THEN SignalCases ELSE {NoSignal} :
          \E r \in {handle_bar(Current, m, sig, TRUE, TRUE)} :
             /\ HasOp(r.ev, "append")
             /\ r.s.df = append_bar(df, validate_bar(Split(m, <<",">>)).row)
             /\ Len(Sent(r.ev)) = 1
             /\ Sent(r.ev)[1] \in (IF Ready THEN {"BUY", "SELL", "HOLD"} ELSE {"LEARNING"})

\* C12: a rejected real-time line is answered ERROR or INVALID_DATA, leaves
\* the window, the model handle and the phase as they were, attempts no
\* retrain, and a valid bar line that follows is processed normally.
C12_RejectedLineHarmless ==
    [][(feed'.n # feed.n /\ feed'.whole \in RejectedLines)
         => /\ Sent(events') \in {<<"ERROR">>, <<"INVALID_DATA">>}
            /\ df' = df /\ dfCols' = dfCols /\ features' = features
            /\ model' = model
            /\ historical_processing_complete' = historical_processing_complete
            /\ ~HasOp(events', "retrain") /\ ~HasOp(events', "append")]_vars
    /\ [](feed.whole \in RejectedLines => ValidBarProcessed)

\* a READY session with bars in its window has just rejected a line
C12_Witness ==
    /\ feed.whole \in RejectedLines
    /\ Ready /\ df # <<>>
    /\ Sent(events) \in {<<"ERROR">>, <<"INVALID_DATA">>}

\* The bar invariant: low <= open, close <= high, low > 0, volume >= 0.
BarInvariant(row) ==
    /\ row.Low <= row.Open /\ row.Open <= row.High
    /\ row.Low <= row.Close /\ row.Close <= row.High
    /\ row.Low > 0 /\ row.Volume >= 0

\* C13: no bar that violates the bar invariant is stored in a window, whether
\* it came as a real-time line or inside a historical batch, in handle_client
\* or in the DataHandler.
C13_WindowBarsValid ==
    /\ \A i \in 1..Len(df) : BarInvariant(df[i])
    /\ \A i \in 1..Len(dh.df) : BarInvariant(dh.df[i])

\* the last input was taken as a bar by handle_client / by the DataHandler
ClientAcceptedBar == HasOp(events, "append")
HandlerAcceptedBar == \E i \in 1..Len(feed.frames) : feed.frames[i].kind = "bar"

\* C14: both real-time parsers accept a bar line of exactly five fields and
\* one of exactly six fields, and reject every other number of fields.
C14_FiveOrSixFields ==
    /\ feed.whole \in {Bar5, Bar6, BarS} => ClientAcceptedBar /\ HandlerAcceptedBar
    /\ feed.whole \in {FourFields, SevenFields} => ~ClientAcceptedBar /\ ~HandlerAcceptedBar

\* C15: in every reachable state the window holds at most 2 * TRAINING_WINDOW
\* bars, in handle_client and in the DataHandler.
C15_WindowBounded ==
    /\ Len(df) <= 2 * TRAINING_WINDOW
    /\ Len(dh.df) <= 2 * TRAINING_WINDOW

\* w2 is w1 after the append of row: longer than 2 * TRAINING_WINDOW with the
\* new row, it is cut to the TRAINING_WINDOW last rows in their order, the new
\* row last; otherwise the row is added at the end and nothing is removed.
AppendedAndTrimmed(w1, row, w2) ==
    IF Len(w1) + 1 > 2 * TRAINING_WINDOW
    THEN /\ Len(w2) = TRAINING_WINDOW
         /\ w2[TRAINING_WINDOW] = row
         /\ \A i \in 1..(TRAINING_WINDOW - 1) :
               w2[i] = w1[Len(w1) - (TRAINING_WINDOW - 1) + i]
    ELSE /\ Len(w2) = Len(w1) + 1
         /\ w2[Len(w2)] = row
         /\ \A i \in 1..Len(w1) : w2[i] = w1[i]

\* C16: an append that makes the window longer than 2 * TRAINING_WINDOW trims
\* it to the TRAINING_WINDOW most recent bars in their order, the appended bar
\* last; any other append adds the bar at the end and removes nothing.  In
\* handle_client and in DataHandler._add_bar_to_dataframe.
C16_AppendThenTrim ==
    [][\A m \in BarInputs :
          (feed'.n # feed.n /\ feed'.whole = m)
            => /\ ClientAcceptedBar'
                   => AppendedAndTrimmed(df, validate_bar(Split(m, <<",">>)).row, df')
               /\ HandlerAcceptedBar'
                   => AppendedAndTrimmed(dh.df, feed'.frames[1].row, dh'.df)]_vars

\* a bar appended to a full window has cut both windows to the last
\* TRAINING_WINDOW bars
C16_Witness ==
    /\ ClientAcceptedBar /\ HandlerAcceptedBar
    /\ Len(df) = TRAINING_WINDOW /\ Len(dh.df) = TRAINING_WINDOW
    /\ df[1].Volume = DigitsValue(Numeral[TRAINING_WINDOW + 2])
    /\ dh.df[1].Volume = DigitsValue(Numeral[TRAINING_WINDOW + 2])

\* the bars of w are in non-decreasing timestamp order
Ordered(w) == \A i \in 1..(Len(w) - 1) : w[i].Timestamp <= w[i + 1].Timestamp

\* C17: the bars of a window are always in non-decreasing timestamp order,
\* after a bulk load of out-of-order lines and after every append.
C17_WindowOrdered == Ordered(df) /\ Ordered(dh.df)

\* the bars of the window w, without the feature columns
Bars(w) == [i \in 1..Len(w) |-> [w[i] EXCEPT !.feat = FALSE]]

\* C18: right after a historical batch was parsed successfully the window
\* holds exactly the bars of that batch, in handle_client (whether or not the
\* training that follows succeeds) and in the DataHandler.
C18_BulkLoadReplaces ==
    \A m \in BatchInputs :
       (feed.n > 0 /\ feed.whole = m)
         => \E p \in {process_historical_data(Split(m, DELIMITER)[1])} :
               p.ok => /\ Bars(df) = Bars(p.rows)
                       /\ dh.df = p.rows

\* a session that had trained on an earlier window has loaded a batch of one
\* record: both windows hold that record only
C18_Witness ==
    /\ feed.whole = Bar6 \o DELIMITER
    /\ model.fitted
    /\ Len(df) = 1 /\ Len(dh.df) = 1

\* a line that is a six-field record whose timestamp and numbers convert
ValidRecord(line) ==
    /\ Len(Split(line, <<",">>)) = 6
    /\ ToDatetimeOk(Split(line, <<",">>)[1])
    /\ \A k \in 2..6 : ToFloat(Split(line, <<",">>)[k]).ok

\* the valid records among the non-empty lines of a batch text, in order
ValidRecords(text) ==
    SelectSeq(SelectNonBlankStripped(Split(text, <<NL>>)), ValidRecord)

\* C19: process_historical_data discards each malformed line and keeps the
\* others: the call succeeds exactly when the batch has a valid record, and
\* then returns one row for each valid record.
C19_MalformedLinesDiscarded ==
    \A m \in BatchInputs :
       (feed.n > 0 /\ feed.whole = m)
         => \E p \in {process_historical_data(Split(m, DELIMITER)[1])} :
               /\ p.ok <=> ValidRecords(Split(m, DELIMITER)[1]) # <<>>
               /\ p.ok => Len(p.rows) = Len(ValidRecords(Split(m, DELIMITER)[1]))
               /\ events[1].op = "load" /\ events[1].ok = p.ok

\* a historical record, the delimiter and a bar on one line
BatchThenBar == Bar6 \o DELIMITER \o Bar5

\* C20: text that follows the first delimiter of a message is retained and
\* processed as bar lines: once handle_client has handled a line that holds a
\* bar after the delimiter, that bar has been appended or its text is still in
\* the read buffer.
C20_TextAfterDelimiterKept ==
    (feed.n > 0 /\ feed.whole = BatchThenBar)
       => \/ ClientAcceptedBar
          \/ Find(buffer, Bar5) # 0

(***************************************************************************)
(* generate_signals on its own: a window and what the classifier and the   *)
(* indicators give for its latest row are drawn at the start, then the     *)
(* function is called on the window.                                       *)
(***************************************************************************)
\* The longest window of these runs.
MaxWindowRows == 3

\* The reference of the window among the DataFrame objects.
WindowRef == 1

\* a window of n bars, the i-th with volume i
WindowOf(n) == [i \in 1..n |-> Row(NOW, 1, 1, 1, 1, i)]

InitSignal ==
    /\ SessionInit
    /\ dh = NewDataHandler
    /\ feed = NoFeed
    /\ \E n \in 0..MaxWindowRows : frames = <<WindowOf(n)>>
    /\ snapshot = 0
    /\ given \in SignalInputs
    /\ signal = ""
    /\ model_lock = FALSE
    /\ at = "loop"
    /\ fit = NoFit
    /\ scoredWith = NoModel
    /\ mainAt = "check"
    /\ handler = NoHandler
    /\ server_socket = "open"
    /\ client_threads = <<>>
    /\ accepted = 0
    /\ signals = 0
    /\ timedOut = {}
    /\ engine = NewTradingEngine
    /\ call = NoCall
    /\ sent = [c \in Conns |-> <<>>]

\* the same object under a second name instead of a copy
df_copy_Alias(heap, ref) == [heap |-> heap, ref |-> ref]
\* df_copy = df.copy(): a new DataFrame object holding the rows of df
df_copy(heap, ref) == [heap |-> Append(heap, heap[ref]), ref |-> Len(heap) + 1]

\* DataHandler.get_dataframe(): return self.df.copy()
get_dataframe(heap, ref) == [heap |-> Append(heap, heap[ref]), ref |-> Len(heap) + 1]

\* what a holder of a snapshot does to it: train_model and prepare_features
\* write their columns into the frame they are given; rows can be added
SnapshotChanges(f) == {prepare_features(f), Append(f, Row(NOW, 1, 1, 1, 1, 0))} \ {f}

\* signal = generate_signals(df, model, features): prepare_features writes
\* the feature columns into df_copy, which is dropped at the return
Decide ==
    /\ signal = ""
    /\ signal' = generate_signals(frames[WindowRef], given)
    /\ \E c \in {df_copy(frames, WindowRef)} :
          \E worked \in {IF given.featOk
                         THEN [c.heap EXCEPT ![c.ref] = prepare_features(@)]
                         ELSE c.heap} :
             frames' = SubSeq(worked, 1, Len(frames))
    /\ UNCHANGED <<snapshot, given>>
    /\ UNCHANGED <<sessionVars, dhVars, coordVars, lockVars, serverVars>>

\* df = data_handler.get_dataframe()
Snapshot ==
    /\ snapshot = 0
    /\ \E c \in {get_dataframe(frames, WindowRef)} :
          /\ frames' = c.heap
          /\ snapshot' = c.ref
    /\ UNCHANGED <<given, signal>>
    /\ UNCHANGED <<sessionVars, dhVars, coordVars, lockVars, serverVars>>

\* the holder of the snapshot changes it
MutateSnapshot ==
    /\ snapshot # 0
    /\ frames[snapshot] = WindowOf(Len(frames[WindowRef]))
    /\ \E d \in SnapshotChanges(frames[snapshot]) :
          frames' = [frames EXCEPT ![snapshot] = d]
    /\ UNCHANGED <<snapshot, given, signal>>
    /\ UNCHANGED <<sessionVars, dhVars, coordVars, lockVars, serverVars>>

NextSignal ==
    \/ Decide
    \/ Snapshot
    \/ MutateSnapshot

SpecSignal == InitSignal /\ [][NextSignal]_vars

\* C22: generate_signals never fails and returns one of HOLD, BUY, SELL; an
\* exception while the features are computed or the model is queried, and an
\* empty latest feature row, give HOLD.
C22_AlwaysAnAction ==
    signal # ""
      => /\ signal \in {"HOLD", "BUY", "SELL"}
         /\ (\/ ~given.featOk \/ ~given.predictOk \/ ~given.latestOk
             \/ Len(frames[WindowRef]) <= LAGGED_RETURN_NAN_ROWS) => signal = "HOLD"

\* the model query raised on a complete feature row and the answer was HOLD
C22_Witness ==
    /\ signal = "HOLD"
    /\ given.featOk /\ given.latestOk /\ ~given.predictOk
    /\ Len(frames[WindowRef]) > LAGGED_RETURN_NAN_ROWS

\* the call reached the model and got a class and a probability
Scored ==
    /\ signal # ""
    /\ given.featOk /\ given.latestOk /\ given.predictOk
    /\ Len(frames[WindowRef]) > LAGGED_RETURN_NAN_ROWS

\* the filters of a buy (price above VWAP, RSI not overbought) and of a sell
BuyContext == given.price_vwap > 0 /\ given.rsi < RSI_OVERBOUGHT
SellContext == given.price_vwap < 0 /\ given.rsi > RSI_OVERSOLD

\* C23 (as stated): whenever the probability does not exceed the threshold,
\* also when it equals it, the decision is HOLD whatever the predicted class
\* and the market context.
C23_HoldUnlessAboveThreshold ==
    (signal # "" /\ given.max_prob <= CONFIDENCE_THRESHOLD) => signal = "HOLD"

\* C23 (amended): whenever the probability is below the threshold the decision
\* is HOLD whatever the class and the context; a probability equal to the
\* threshold is sufficient, the decision then follows the class and its filters.
C23_HoldBelowThreshold ==
    /\ (signal # "" /\ given.max_prob < CONFIDENCE_THRESHOLD) => signal = "HOLD"
    /\ (Scored /\ given.max_prob = CONFIDENCE_THRESHOLD)
         => /\ (given.prediction = 1 /\ BuyContext) => signal = "BUY"
            /\ (given.prediction = 2 /\ SellContext) => signal = "SELL"

\* a buy prediction with its filters satisfied was held for a probability
\* below the threshold
C23_Witness ==
    /\ Scored /\ given.max_prob < CONFIDENCE_THRESHOLD
    /\ given.prediction = 1 /\ BuyContext
    /\ signal = "HOLD"

\* C24: BUY is returned only for predicted class 1 with a confidence that
\* passes the threshold, the price above VWAP and RSI below 70; SELL only for
\* class 2 with a confidence that passes the threshold, the price below VWAP
\* and RSI above 30; every other case, class 0 included, gives HOLD.
C24_DirectionNeedsFilters ==
    signal # ""
      => /\ signal = "BUY" => /\ Scored /\ given.prediction = 1
                              /\ given.max_prob >= CONFIDENCE_THRESHOLD
                              /\ BuyContext
         /\ signal = "SELL" => /\ Scored /\ given.prediction = 2
                               /\ given.max_prob >= CONFIDENCE_THRESHOLD
                               /\ SellContext
         /\ signal \in {"BUY", "SELL", "HOLD"}
         /\ given.prediction = 0 => signal = "HOLD"

\* a confident sell prediction was held because the price is not below VWAP
C24_Witness ==
    /\ Scored /\ given.prediction = 2 /\ given.max_prob > CONFIDENCE_THRESHOLD
    /\ given.price_vwap > 0 /\ given.rsi > RSI_OVERSOLD
    /\ signal = "HOLD"

\* The default of the adaptive threshold and its band, in percent, as the
\* specification gives them; config.py has no such options.
THRESHOLD_DEFAULT == 55
THRESHOLD_MIN == 50
THRESHOLD_MAX == 70

\* C25: the threshold the policy applies is computed from the history of
\* recent scores, lies within the configured band and is the configured
\* default while the history is empty: in a first call (nothing scored yet) a
\* buy prediction with its filters satisfied and a probability above the
\* default is acted on.
C25_ThresholdFromHistory ==
    /\ CONFIDENCE_THRESHOLD \in THRESHOLD_MIN..THRESHOLD_MAX
    /\ (Scored /\ given.prediction = 1 /\ BuyContext /\ given.max_prob > THRESHOLD_DEFAULT)
          => signal = "BUY"

\* C26: computing a decision or taking a snapshot never changes the session
\* window, and a change made to a snapshot is not visible in the window: no
\* step changes the rows or the columns of the window's frame.
C26_WindowUntouched == [][frames'[WindowRef] = frames[WindowRef]]_vars

\* a decision was computed with the feature columns written, a snapshot was
\* taken and changed, and the window still holds its bars only
C26_Witness ==
    /\ signal # "" /\ given.featOk
    /\ snapshot # 0
    /\ Len(frames[WindowRef]) > LAGGED_RETURN_NAN_ROWS
    /\ frames[snapshot] # frames[WindowRef]
    /\ frames[WindowRef] = WindowOf(Len(frames[WindowRef]))

(***************************************************************************)
(* main.ApplicationCoordinator and trading_engine.TradingEngine: the       *)
(* chunks of every connection are passed to the one coordinator, which     *)
(* holds one DataHandler and one TradingEngine.                            *)
(***************************************************************************)
\* "len(df) >= 100" of process_real_time_bar, scaled as the window is
ENGINE_MIN_ROWS == 2

\* a failed training taking the model out of service
process_historical_data_completed_Unready(e, trained) ==
    IF trained
    THEN [engine |-> [e EXCEPT !.model_ready = TRUE,
                               !.historical_training_complete = TRUE],
          raised |-> FALSE]
    ELSE [engine |-> [e EXCEPT !.model_ready = FALSE], raised |-> TRUE]

\* TradingEngine.process_historical_data_completed.  trained: whether the
\* call train_model(df) returns; the flags are set after it only.
process_historical_data_completed(e, trained) ==
    IF trained
    THEN [engine |-> [e EXCEPT !.model_ready = TRUE,
                               !.historical_training_complete = TRUE],
          raised |-> FALSE]
    ELSE [engine |-> e, raised |-> TRUE]

\* the call that trains the first model answering with a decision at once
process_real_time_bar_SignalsAtOnce(e, d, seen, trained, decision) ==
    IF seen /\ e.model_ready /\ e.historical_training_complete
    THEN IF decision = "" \/ ((e.bar_count + 1) % RETRAIN_INTERVAL = 0 /\ ~trained)
         THEN [engine |-> [e EXCEPT !.bar_count = @ + 1], raised |-> TRUE, signal |-> ""]
         ELSE [engine |-> [e EXCEPT !.bar_count = @ + 1], raised |-> FALSE,
               signal |-> decision]
    ELSE IF Len(d) >= ENGINE_MIN_ROWS /\ ~e.model_ready
         THEN IF ~trained
              THEN [engine |-> [e EXCEPT !.bar_count = @ + 1], raised |-> TRUE,
                    signal |-> ""]
              ELSE [engine |-> [e EXCEPT !.bar_count = @ + 1,
                                         !.model_ready = TRUE,
                                         !.historical_training_complete = @ \/ seen],
                    raised |-> FALSE, signal |-> decision]
         ELSE [engine |-> [e EXCEPT !.bar_count = @ + 1], raised |-> FALSE, signal |-> "HOLD"]

\* TradingEngine.process_real_time_bar(bar_data): d is what get_dataframe
\* returns, seen is has_seen_historical_delimiter().  decision: what
\* generate_signal(df) returns ("" when the call raises); trained: whether a
\* call train_model(df) returns.
process_real_time_bar(e, d, seen, trained, decision) ==
    IF seen /\ e.model_ready /\ e.historical_training_complete
    THEN IF decision = "" \/ ((e.bar_count + 1) % RETRAIN_INTERVAL = 0 /\ ~trained)
         THEN [engine |-> [e EXCEPT !.bar_count = @ + 1], raised |-> TRUE, signal |-> ""]
         ELSE [engine |-> [e EXCEPT !.bar_count = @ + 1], raised |-> FALSE,
               signal |-> decision]
    ELSE IF Len(d) >= ENGINE_MIN_ROWS /\ ~e.model_ready
         THEN IF ~trained
              THEN [engine |-> [e EXCEPT !.bar_count = @ + 1], raised |-> TRUE,
                    signal |-> ""]
              ELSE [engine |-> [e EXCEPT !.bar_count = @ + 1,
                                         !.model_ready = TRUE,
                                         !.historical_training_complete = @ \/ seen],
                    raised |-> FALSE, signal |-> "HOLD"]
         ELSE [engine |-> [e EXCEPT !.bar_count = @ + 1], raised |-> FALSE, signal |-> "HOLD"]

\* "for bar_data in real_time_bars" of ApplicationCoordinator.process_data_chunk
\* with k bars left; an exception ends the call with nothing returned
RECURSIVE bars_loop(_, _, _, _, _, _, _)
bar_answered(r, d, seen, k, responses, trained, decision) ==
    IF r.raised
    THEN [engine |-> r.engine, raised |-> TRUE, responses |-> <<>>]
    ELSE bars_loop(r.engine, d, seen, k - 1, Append(responses, r.signal), trained, decision)

bars_loop(e, d, seen, k, responses, trained, decision) ==
    IF k = 0
    THEN [engine |-> e, raised |-> FALSE, responses |-> responses]
    ELSE bar_answered(process_real_time_bar(e, d, seen, trained, decision),
                      d, seen, k, responses, trained, decision)

\* ApplicationCoordinator.process_data_chunk after the DataHandler call
\* returned r (or raised): every get_dataframe of the engine is called after
\* that, on the window r.self.df
chunk_answered(e, r, trained, decision) ==
    IF r.raised
    THEN [dh |-> r.self, engine |-> e, raised |-> TRUE, responses |-> <<>>]
    ELSE IF r.historical_processed /\ ~trained
         THEN [dh |-> r.self,
               engine |-> process_historical_data_completed(e, trained).engine,
               raised |-> TRUE, responses |-> <<>>]
         ELSE [dh |-> r.self]
              @@ bars_loop(IF r.historical_processed
                           THEN process_historical_data_completed(e, trained).engine
                           ELSE e,
                           r.self.df, r.self.historical_delimiter_seen,
                           Len(r.real_time_bars), <<>>, trained, decision)

\* ApplicationCoordinator.process_data_chunk(chunk); trained and decision are
\* the outcomes of the train_model and generate_signal calls made during it
coordinator_process_data_chunk(dataHandler, e, chunk, trained, decision) ==
    chunk_answered(e, process_data_chunk(dataHandler, chunk), trained, decision)

\* the complete lines of buf that are not blank
RECURSIVE NonEmptyLines(_)
NonEmptyLines(buf) ==
    IF ~Contains(buf, NL) THEN 0
    ELSE (IF Strip(SplitOnce(buf, <<NL>>).head) = <<>> THEN 0 ELSE 1)
         + NonEmptyLines(SplitOnce(buf, <<NL>>).tail)

\* the complete non-empty bar lines a call consumes from its buffer: those
\* after the delimiter, if there is one
BarLinesIn(buf) ==
    IF Find(buf, DELIMITER) # 0
    THEN NonEmptyLines(SplitOnce(buf, DELIMITER).tail)
    ELSE NonEmptyLines(buf)

\* The chunks passed: whole lines (accepted, rejected, blank), two lines at
\* once, a historical batch with its delimiter.
CoordInputs ==
    {BarLine \o <<NL>>, BadStamp \o <<NL>>, TwoFields \o <<NL>>, <<NL>>,
     BarLine \o <<NL>> \o NonNumeric \o <<NL>>,
     Bar6 \o DELIMITER \o <<NL>>}

InitCoord ==
    /\ SessionInit
    /\ UnitIdle
    /\ dh = NewDataHandler
    /\ feed = NoFeed

\* What a call of the coordinator leaves to look at: the lines it consumed,
\* its responses, the bars the DataHandler returned (p), the window every
\* get_dataframe of the call was answered with, and the outcomes its
\* train_model and generate_signal calls had.
Called(c, before, m, r, trained, decision) ==
    LET p == process_data_chunk(before, m) IN
       [conn |-> c, lines |-> BarLinesIn(before.data_buffer \o m),
        responses |-> r.responses, raised |-> r.raised,
        bars |-> p.real_time_bars,
        historical |-> p.historical_processed,
        batch |-> IF p.historical_processed
                  THEN process_historical_data(p.historical_data).rows ELSE <<>>,
        window |-> r.dh.df,
        trained |-> trained, decision |-> decision]

\* connection c passes the chunk m to the coordinator.  The engine calls
\* train_model(df) of src/model.py, which takes (df, features): a TypeError;
\* generate_signal is not a name src/signal_generator.py defines.
CoordChunk(c, m) ==
    /\ feed.n < MaxInputs
    /\ \E r \in {coordinator_process_data_chunk(dh, engine, m, FALSE, "")} :
          /\ dh' = r.dh
          /\ engine' = r.engine
          /\ call' = Called(c, dh, m, r, FALSE, "")
    /\ sent' = [sent EXCEPT ![c] = Append(@, m)]
    /\ feed' = [feed EXCEPT !.n = @ + 1, !.whole = @ \o m]
    /\ UNCHANGED <<sessionVars, signalVars, lockVars, serverVars>>

NextCoord == \E c \in Conns, m \in CoordInputs : CoordChunk(c, m)

SpecCoord == InitCoord /\ [][NextCoord]_vars

\* C21: a call of ApplicationCoordinator.process_data_chunk that returns
\* gives one response for every complete non-empty bar line it consumed, a
\* line that _parse_bar_data rejects included.
C21_ResponsePerLine ==
    (call.conn # 0 /\ ~call.raised) => Len(call.responses) = call.lines

\* the coordinator given, from new, the chunks x[1..i] only
RECURSIVE coordinator_run(_, _)
coordinator_next(before, chunk) ==
    coordinator_process_data_chunk(before.dh, before.engine, chunk, FALSE, "")

coordinator_run(x, i) ==
    IF i = 0
    THEN [dh |-> NewDataHandler, engine |-> NewTradingEngine, raised |-> FALSE,
          responses |-> <<>>]
    ELSE coordinator_next(coordinator_run(x, i - 1), x[i])

\* what the connection c would have got had its chunks been the only input
Alone(c) == coordinator_run(sent[c], Len(sent[c]))

\* C27: connections share no window and no buffer, so input received on one
\* connection never changes the window or the responses of another: what a
\* connection's chunk is answered, and the window it is answered from, are
\* those of a coordinator that received this connection's chunks only.
C27_ConnectionsIsolated ==
    call.conn # 0 =>
        \E a \in {Alone(call.conn)} :
            /\ call.responses = a.responses
            /\ call.raised = a.raised
            /\ dh.df = a.dh.df

(***************************************************************************)
(* One handle_client session statement by statement around model_lock:     *)
(* the historical branch trains under the lock, the bar branch scores      *)
(* under the lock and then, when a retrain is due, trains under it.        *)
(***************************************************************************)
\* the sizes of the training sets a fit is given
MaxFitRows == 2

sessionRest == <<wire, peerClosed, shutdown_event, pc, buffer, df, dfCols, features, events,
                 owed, sinceRetrain, payload, processedSent>>

\* the statements inside a "with model_lock" block
Training == {"h_train", "r_train"}
Leaving == {"h_exit", "h_raise", "s_exit", "s_raise", "r_exit"}
UnderLock == Training \cup Leaving \cup {"s_check", "score"}
\* the statements outside of them
Unlocked == {"loop", "h_lock", "s_lock", "r_lock", "retrain"}

\* the lock is given back on a return only
lock_exit_OnReturnOnly(raising) == raising
\* the end of a "with model_lock" block, left by a return or by an
\* exception: whether the lock is still held
lock_exit(raising) == FALSE

InitLock ==
    /\ SessionInit
    /\ UnitIdle
    /\ dh = NewDataHandler
    /\ feed = NoFeed

\* a historical message: process_historical_data and prepare_features, which
\* may raise, then "with model_lock"
LkHistorical ==
    /\ at = "loop"
    /\ \/ at' = "h_lock" /\ UNCHANGED historical_processing_complete
       \/ at' = "loop" /\ historical_processing_complete' = FALSE
    /\ UNCHANGED <<model, model_lock, fit, scoredWith>>
    /\ UNCHANGED <<sessionRest, dhVars, signalVars, coordVars, serverVars>>

\* a bar that passed the checks and was appended: "with model_lock"
LkBar ==
    /\ at = "loop"
    /\ at' = "s_lock"
    /\ UNCHANGED <<model, historical_processing_complete, model_lock, fit, scoredWith>>
    /\ UNCHANGED <<sessionRest, dhVars, signalVars, coordVars, serverVars>>

\* model_lock.acquire() of a with statement
LkAcquire ==
    /\ at \in {"h_lock", "s_lock", "r_lock"}
    /\ ~model_lock
    /\ model_lock' = TRUE
    /\ at' = CASE at = "h_lock" -> "h_train"
               [] at = "s_lock" -> "s_check"
               [] at = "r_lock" -> "r_train"
    /\ UNCHANGED <<model, historical_processing_complete, fit, scoredWith>>
    /\ UNCHANGED <<sessionRest, dhVars, signalVars, coordVars, serverVars>>

\* train_model builds a classifier on k rows
LkFit(k) ==
    /\ at \in Training
    /\ fit = NoFit
    /\ fit' = [rows |-> k]
    /\ UNCHANGED <<model, historical_processing_complete, model_lock, at, scoredWith>>
    /\ UNCHANGED <<sessionRest, dhVars, signalVars, coordVars, serverVars>>

\* model = train_model(df, features): the call returns and model is assigned
LkTrainReturns ==
    /\ at \in Training
    /\ fit # NoFit
    /\ model' = [fitted |-> TRUE, rows |-> fit.rows]
    /\ fit' = NoFit
    /\ at' = IF at = "h_train" THEN "h_exit" ELSE "r_exit"
    /\ UNCHANGED <<historical_processing_complete, model_lock, scoredWith>>
    /\ UNCHANGED <<sessionRest, dhVars, signalVars, coordVars, serverVars>>

\* train_model raises: the historical branch leaves the with block by the
\* exception, the retrain catches it inside the block
LkTrainRaises ==
    /\ at \in Training
    /\ fit' = NoFit
    /\ at' = IF at = "h_train" THEN "h_raise" ELSE "r_exit"
    /\ UNCHANGED <<model, historical_processing_complete, model_lock, scoredWith>>
    /\ UNCHANGED <<sessionRest, dhVars, signalVars, coordVars, serverVars>>

\* if historical_processing_complete and model is not None
LkCheck ==
    /\ at = "s_check"
    /\ at' = IF signal_ready(historical_processing_complete, model) THEN "score" ELSE "s_exit"
    /\ UNCHANGED <<model, historical_processing_complete, model_lock, fit, scoredWith>>
    /\ UNCHANGED <<sessionRest, dhVars, signalVars, coordVars, serverVars>>

\* signal = generate_signals(df, model, features), send_response and
\* log_trading_event, which may raise
LkScore ==
    /\ at = "score"
    /\ scoredWith' = model
    /\ at' \in {"s_exit", "s_raise"}
    /\ UNCHANGED <<model, historical_processing_complete, model_lock, fit>>
    /\ UNCHANGED <<sessionRest, dhVars, signalVars, coordVars, serverVars>>

\* the end of the with block and what follows it
LkExit ==
    /\ at \in Leaving
    /\ model_lock' = lock_exit(at \in {"h_raise", "s_raise"})
    /\ at' = IF at = "s_exit" THEN "retrain" ELSE "loop"
    /\ historical_processing_complete' =
          (CASE at = "h_exit" -> TRUE
             [] at = "h_raise" -> FALSE
             [] OTHER -> historical_processing_complete)
    /\ UNCHANGED <<model, fit, scoredWith>>
    /\ UNCHANGED <<sessionRest, dhVars, signalVars, coordVars, serverVars>>

\* if len(df) % config.RETRAIN_INTERVAL == 0
LkRetrainDue ==
    /\ at = "retrain"
    /\ at' \in {"r_lock", "loop"}
    /\ UNCHANGED <<model, historical_processing_complete, model_lock, fit, scoredWith>>
    /\ UNCHANGED <<sessionRest, dhVars, signalVars, coordVars, serverVars>>

NextLock ==
    \/ LkHistorical
    \/ LkBar
    \/ LkAcquire
    \/ \E k \in 1..MaxFitRows : LkFit(k)
    \/ LkTrainReturns
    \/ LkTrainRaises
    \/ LkCheck
    \/ LkScore
    \/ LkExit
    \/ LkRetrainDue

SpecLock == InitLock /\ [][NextLock]_vars

\* C28: within a session training and scoring never overlap: the model is
\* read by generate_signals and replaced by train_model only while
\* model_lock is held, no fit is in progress while a bar is scored, the lock
\* is free again whenever a with block was left (by a return or by an
\* exception), and generate_signals is only ever given a completely trained
\* model.
C28_TrainAndScoreUnderLock ==
    /\ [](at \in UnderLock => model_lock)
    /\ [](at \in Unlocked => ~model_lock)
    /\ [](fit # NoFit => at \in Training)
    /\ [](model = NoModel \/ model.fitted)
    /\ [](scoredWith = NoModel \/ scoredWith.fitted)
    /\ [][model' # model => model_lock /\ at \in Training]_vars
    /\ [][scoredWith' # scoredWith => model_lock /\ at = "score" /\ fit = NoFit]_vars

\* a bar was scored, a retrain then replaced the model, a later historical
\* training raised, and the next bar waits for the lock, which is free
C28_Witness ==
    /\ scoredWith.fitted
    /\ model.fitted /\ model # scoredWith
    /\ ~historical_processing_complete
    /\ at = "s_lock"
    /\ ~model_lock

(***************************************************************************)
(* start_server, signal_handler and the session threads.  A signal handler *)
(* runs on the main thread, between two of its statements; sys.exit(0)     *)
(* raises SystemExit there, which no except clause of start_server         *)
(* catches, and the daemon threads end with the process.                   *)
(***************************************************************************)
MaxClients == 2
MaxSignals == 2

serverFrame == <<wire, peerClosed, pc, buffer, df, dfCols, model, features,
                 historical_processing_complete, events, owed, sinceRetrain, payload,
                 processedSent, dhVars, signalVars, coordVars, lockVars>>

\* the process is over
Over == mainAt \in {"exited", "returned"}
\* thread.is_alive()
Alive == {"reading", "busy", "leaving"}
\* the threads that were started
Started == {i \in 1..Len(client_threads) : client_threads[i] # "unstarted"}
\* the daemon threads at the end of the process
Abandoned(threads) ==
    [i \in 1..Len(threads) |-> IF threads[i] \in Alive THEN "killed" ELSE threads[i]]

\* the handler returns to the statement it interrupted
handler_end_Returns(resume) == resume
\* sys.exit(0) at the end of signal_handler: where the main thread is then
handler_end(resume) == "exited"

\* the joins are left out
join_from_Skipped(threads) == Len(threads) + 1
\* for thread in client_threads[:]: the first index of the loop
join_from(threads) == 1

InitServer ==
    /\ SessionInit
    /\ UnitIdle
    /\ dh = NewDataHandler
    /\ feed = NoFeed

\* while not shutdown_event.is_set()
MainCheck ==
    /\ mainAt = "check" /\ handler.at = "none"
    /\ mainAt' = IF shutdown_event THEN "returned" ELSE "accept"
    /\ client_threads' = IF shutdown_event THEN Abandoned(client_threads) ELSE client_threads
    /\ UNCHANGED <<shutdown_event, handler, server_socket, accepted, signals, timedOut>>
    /\ UNCHANGED serverFrame

\* server_socket.accept() times out, or raises on a closed socket
MainAcceptNone ==
    /\ mainAt = "accept" /\ handler.at = "none"
    /\ mainAt' = "check"
    /\ UNCHANGED <<shutdown_event, handler, server_socket, client_threads, accepted, signals,
                   timedOut>>
    /\ UNCHANGED serverFrame

\* client_socket, addr = server_socket.accept()
MainAccept ==
    /\ mainAt = "accept" /\ handler.at = "none"
    /\ server_socket = "open"
    /\ accepted < MaxClients
    /\ accepted' = accepted + 1
    /\ mainAt' = "connected"
    /\ UNCHANGED <<shutdown_event, handler, server_socket, client_threads, signals, timedOut>>
    /\ UNCHANGED serverFrame

\* client_thread = threading.Thread(...); client_threads.append(client_thread)
MainAppend ==
    /\ mainAt = "connected" /\ handler.at = "none"
    /\ client_threads' = Append(client_threads, "unstarted")
    /\ mainAt' = "appended"
    /\ UNCHANGED <<shutdown_event, handler, server_socket, accepted, signals, timedOut>>
    /\ UNCHANGED serverFrame

\* client_thread.start()
MainStart ==
    /\ mainAt = "appended" /\ handler.at = "none"
    /\ client_threads' = [client_threads EXCEPT ![Len(client_threads)] = "reading"]
    /\ mainAt' = "check"
    /\ UNCHANGED <<shutdown_event, handler, server_socket, accepted, signals, timedOut>>
    /\ UNCHANGED serverFrame

\* SIGINT or SIGTERM is delivered: signal_handler starts on the main thread
\* (a second signal starts it anew inside the first)
Signal ==
    /\ ~Over
    /\ signals < MaxSignals
    /\ signals' = signals + 1
    /\ handler' = [at |-> "set", i |-> 0]
    /\ UNCHANGED <<shutdown_event, mainAt, server_socket, client_threads, accepted, timedOut>>
    /\ UNCHANGED serverFrame

\* shutdown_event.set()
HandlerSet ==
    /\ ~Over /\ handler.at = "set"
    /\ shutdown_event' = TRUE
    /\ handler' = [handler EXCEPT !.at = "close"]
    /\ UNCHANGED <<mainAt, server_socket, client_threads, accepted, signals, timedOut>>
    /\ UNCHANGED serverFrame

\* server_socket.close()
HandlerClose ==
    /\ ~Over /\ handler.at = "close"
    /\ server_socket' = "closed"
    /\ handler' = [at |-> "join", i |-> join_from(client_threads)]
    /\ UNCHANGED <<shutdown_event, mainAt, client_threads, accepted, signals, timedOut>>
    /\ UNCHANGED serverFrame

\* if thread.is_alive(): the thread is waited for, or passed over
HandlerIsAlive ==
    /\ ~Over /\ handler.at = "join"
    /\ handler.i <= Len(client_threads)
    /\ handler' = IF client_threads[handler.i] \in Alive
                  THEN [handler EXCEPT !.at = "joining"]
                  ELSE [handler EXCEPT !.i = @ + 1]
    /\ UNCHANGED <<shutdown_event, mainAt, server_socket, client_threads, accepted, signals,
                   timedOut>>
    /\ UNCHANGED serverFrame

\* thread.join(timeout=2.0) returns because the thread has ended
HandlerJoined ==
    /\ ~Over /\ handler.at = "joining"
    /\ client_threads[handler.i] \notin Alive
    /\ handler' = [at |-> "join", i |-> handler.i + 1]
    /\ UNCHANGED <<shutdown_event, mainAt, server_socket, client_threads, accepted, signals,
                   timedOut>>
    /\ UNCHANGED serverFrame

\* thread.join(timeout=2.0) returns because of the timeout
HandlerJoinTimeout ==
    /\ ~Over /\ handler.at = "joining"
    /\ client_threads[handler.i] \in Alive
    /\ timedOut' = timedOut \cup {handler.i}
    /\ handler' = [at |-> "join", i |-> handler.i + 1]
    /\ UNCHANGED <<shutdown_event, mainAt, server_socket, client_threads, accepted, signals>>
    /\ UNCHANGED serverFrame

\* log_trading_event(...); sys.exit(0)
HandlerExit ==
    /\ ~Over /\ handler.at = "join"
    /\ handler.i > Len(client_threads)
    /\ mainAt' = handler_end(mainAt)
    /\ client_threads' = IF handler_end(mainAt) = "exited"
                         THEN Abandoned(client_threads) ELSE client_threads
    /\ handler' = NoHandler
    /\ UNCHANGED <<shutdown_event, server_socket, accepted, signals, timedOut>>
    /\ UNCHANGED serverFrame

\* a session reads a message and handles it (training, scoring)
SessionMessage(i) ==
    /\ ~Over /\ client_threads[i] = "reading"
    /\ ~shutdown_event
    /\ client_threads' = [client_threads EXCEPT ![i] = "busy"]
    /\ UNCHANGED <<shutdown_event, mainAt, handler, server_socket, accepted, signals, timedOut>>
    /\ UNCHANGED serverFrame

\* the handling of the message returns
SessionHandled(i) ==
    /\ ~Over /\ client_threads[i] = "busy"
    /\ client_threads' = [client_threads EXCEPT ![i] = "reading"]
    /\ UNCHANGED <<shutdown_event, mainAt, handler, server_socket, accepted, signals, timedOut>>
    /\ UNCHANGED serverFrame

\* how a session leaves its loop: recv returns no data, recv raises, the
\* decoding of the chunk raises, shutdown_event is set when the read times
\* out or a message is yielded, the loop body raises
ExitCauses == {"eof", "recv_error", "decode_error", "stop", "body_error"}

\* an exception of recv or of the decoding leaves the thread uncaught
session_exit_ReadErrorEscapes(cause) ==
    IF cause \in {"recv_error", "decode_error"} THEN "escaped" ELSE "leaving"
\* where the thread is then: read_message returns None on no data and on
\* an exception inside its try, its while test ends it on shutdown, an
\* exception of the loop body is caught by the outer except Exception; the
\* finally block follows in every case
session_exit(cause) == "leaving"

\* the session leaves its loop
SessionLeaves(i) ==
    /\ ~Over /\ client_threads[i] = "reading"
    /\ \E cause \in ExitCauses :
          /\ cause = "stop" => shutdown_event
          /\ client_threads' = [client_threads EXCEPT ![i] = session_exit(cause)]
    /\ UNCHANGED <<shutdown_event, mainAt, handler, server_socket, accepted, signals, timedOut>>
    /\ UNCHANGED serverFrame

\* finally: client_socket.close()
SessionCloses(i) ==
    /\ ~Over /\ client_threads[i] = "leaving"
    /\ client_threads' = [client_threads EXCEPT ![i] = "closed"]
    /\ UNCHANGED <<shutdown_event, mainAt, handler, server_socket, accepted, signals, timedOut>>
    /\ UNCHANGED serverFrame

SessionStep(i) ==
    \/ SessionMessage(i)
    \/ SessionHandled(i)
    \/ SessionLeaves(i)
    \/ SessionCloses(i)

HandlerStep ==
    \/ HandlerSet
    \/ HandlerClose
    \/ HandlerIsAlive
    \/ HandlerJoined
    \/ HandlerJoinTimeout
    \/ HandlerExit

NextServer ==
    \/ MainCheck
    \/ MainAcceptNone
    \/ MainAccept
    \/ MainAppend
    \/ MainStart
    \/ Signal
    \/ HandlerSet
    \/ HandlerClose
    \/ HandlerIsAlive
    \/ HandlerJoined
    \/ HandlerJoinTimeout
    \/ HandlerExit
    \/ \E i \in 1..Len(client_threads) : SessionMessage(i)
    \/ \E i \in 1..Len(client_threads) : SessionHandled(i)
    \/ \E i \in 1..Len(client_threads) : SessionLeaves(i)
    \/ \E i \in 1..Len(client_threads) : SessionCloses(i)

\* The handler's statements return (a join at the latest by its timeout), and
\* a session thread that can take a step is scheduled: a blocked read wakes by
\* its timeout, a training or scoring call returns.
SpecServer ==
    /\ InitServer
    /\ [][NextServer]_vars
    /\ WF_vars(HandlerStep)
    /\ \A i \in 1..MaxClients : WF_vars(i <= Len(client_threads) /\ SessionStep(i))

\* C29: once signal_handler has set shutdown_event, start_server accepts no
\* further connection and starts no new session thread.
C29_NoAcceptAfterShutdown ==
    [][shutdown_event => /\ accepted' = accepted
                         /\ Len(client_threads') = Len(client_threads)
                         /\ \A i \in 1..Len(client_threads) :
                               client_threads[i] = "unstarted" =>
                                   client_threads'[i] = "unstarted"]_vars

\* the signal came between accept and start: the process has ended and the
\* thread of the accepted connection was never started
C29_Witness ==
    /\ shutdown_event
    /\ mainAt = "exited"
    /\ accepted > 0
    /\ \E i \in 1..Len(client_threads) : client_threads[i] = "unstarted"

\* C30: after shutdown_event is set every live session leaves its read loop
\* and closes its client socket, and signal_handler terminates the process:
\* when the process has ended, no session was ended with it before it had
\* closed its socket.
C30_EverySessionCloses ==
    mainAt = "exited" =>
        \A i \in 1..Len(client_threads) : client_threads[i] # "killed"

\* C30, as the code has it: after shutdown_event is set signal_handler
\* terminates the process; by then every session thread has closed its
\* client socket or was ended with the process, and a session is ended with
\* the process only if its join had timed out.
C30_ShutdownWithinGrace ==
    /\ shutdown_event ~> (/\ mainAt = "exited"
                          /\ \A i \in 1..Len(client_threads) :
                                client_threads[i] \in {"unstarted", "closed", "killed"})
    /\ [](\A i \in 1..Len(client_threads) : client_threads[i] = "killed" => i \in timedOut)

\* the process has ended with one session closed by itself and one ended
\* with the process after its join timed out
C30_Witness ==
    /\ mainAt = "exited"
    /\ \E i \in 1..Len(client_threads) : client_threads[i] = "closed"
    /\ \E i \in 1..Len(client_threads) : client_threads[i] = "killed" /\ i \in timedOut

(***************************************************************************)
(* Failures inside a session: a failed write, a failed read.               *)
(***************************************************************************)
\* send_response's socket write raised in the latest iteration
SendFailed == \E i \in 1..Len(events) : events[i].op = "send" /\ ~events[i].ok

\* C31: when the write of a response fails, the session ends: no further
\* input line is handled by it (no step after the failure is an iteration
\* of the message loop that handles a line).
C31_SendFailureEndsSession ==
    [][SendFailed => ~HasOp(events', "send")]_vars

\* C32: a read error or a disconnect ends only the session it happens in: a
\* step in which a session leaves its loop or closes its socket changes no
\* other session, not the accept loop and not the listening socket; no
\* exception leaves a session thread uncaught; and a session that has left
\* its loop closes its socket (unless the process ends first).
C32_ReadFailureEndsOnlyThatSession ==
    /\ [][\A i \in 1..Len(client_threads) :
             (client_threads[i] \in {"reading", "leaving"}
              /\ client_threads'[i] \in {"leaving", "closed", "escaped"}
              /\ client_threads'[i] # client_threads[i]) =>
                 /\ \A j \in (1..Len(client_threads)) \ {i} :
                       client_threads'[j] = client_threads[j]
                 /\ mainAt' = mainAt /\ server_socket' = server_socket
                 /\ handler' = handler /\ accepted' = accepted]_vars
    /\ [](\A i \in 1..Len(client_threads) : client_threads[i] # "escaped")
    /\ \A i \in 1..MaxClients :
          (i <= Len(client_threads) /\ client_threads[i] = "leaving")
              ~> (i <= Len(client_threads) /\ client_threads[i] \in {"closed", "killed"})

\* no shutdown was requested: one session has ended and closed its socket,
\* another still reads, and the main thread is in accept
C32_Witness ==
    /\ ~shutdown_event /\ signals = 0
    /\ mainAt = "accept"
    /\ \E i \in 1..Len(client_threads) : client_threads[i] = "closed"
    /\ \E i \in 1..Len(client_threads) : client_threads[i] = "reading"

\* C33: in a session, historical_processing_complete implies that a model is
\* installed; an installed model is never taken away again; so no accepted
\* bar is answered LEARNING while historical processing is complete.
C33_CompleteImpliesModel ==
    /\ [](historical_processing_complete => model.fitted)
    /\ [][model.fitted => model'.fitted]_vars
    /\ [](\A i \in 1..Len(events) :
             (events[i].op = "send" /\ events[i].arg = "LEARNING") => ~events[i].hpc)

\* a session with a model installed was given a batch that failed: the flag
\* is clear, the model is still there
C33_Witness ==
    /\ Sent(events) = <<"HISTORICAL_ERROR">>
    /\ ~historical_processing_complete
    /\ model.fitted

\* C34: in handle_client a batch that fails to parse leaves the session window
\* as it was; a batch that parses but whose features or training fail leaves
\* the batch's bars in the window; either way the model handle installed
\* before is kept and HISTORICAL_ERROR is what is sent.
C34_FailedBatchWindow ==
    [][\A m \in BatchInputs :
          (feed'.n = feed.n + 1 /\ feed'.whole = m)
            => \E p \in {process_historical_data(Split(m, DELIMITER)[1])} :
                  /\ ~p.ok => /\ df' = df /\ dfCols' = dfCols
                              /\ model' = model
                              /\ Sent(events') = <<"HISTORICAL_ERROR">>
                  /\ (p.ok /\ ~\E i \in 1..Len(events') :
                                  events'[i].op = "train" /\ events'[i].ok)
                        => /\ Bars(df') = Bars(p.rows)
                           /\ model' = model
                           /\ Sent(events') = <<"HISTORICAL_ERROR">>]_vars

\* a session holding a trained window was given a batch without any record:
\* the window and the model are still there, HISTORICAL_ERROR was sent
C34_Witness ==
    /\ feed.n > 1 /\ feed.whole = DELIMITER
    /\ Len(df) > 0 /\ dfCols
    /\ model.fitted
    /\ Sent(events) = <<"HISTORICAL_ERROR">>

(***************************************************************************)
(* TradingEngine behind one coordinator, with the callees it is written    *)
(* against: train_model(df), which trains or raises, and                   *)
(* generate_signal(df), which returns a decision.                          *)
(***************************************************************************)
\* the calls of process_data_chunk in a run
MaxCalls == 4

\* what a train_model(df) call does: it returns (TRUE) or raises (FALSE)
TrainOutcomes == BOOLEAN

\* what generate_signal(df) returns
Decisions == {"HOLD", "BUY", "SELL"}

\* The chunks passed: one bar, two bars, a batch of one record, of two
\* records, a batch followed by a bar, a batch without any record.
EngineInputs ==
    {BarLine \o <<NL>>,
     Bar6 \o <<NL>> \o BarLine \o <<NL>>,
     Bar6 \o DELIMITER \o <<NL>>,
     BatchText(ENGINE_MIN_ROWS) \o DELIMITER \o <<NL>>,
     Bar6 \o DELIMITER \o BarLine \o <<NL>>,
     DELIMITER}

InitEngine ==
    /\ SessionInit
    /\ UnitIdle
    /\ dh = NewDataHandler
    /\ feed = NoFeed

\* one call of ApplicationCoordinator.process_data_chunk; the train_model
\* calls made during it all have the outcome trained, the generate_signal
\* calls all return decision
EngineChunk(m, trained, decision) ==
    /\ feed.n < MaxCalls
    /\ \E r \in {coordinator_process_data_chunk(dh, engine, m, trained, decision)} :
          /\ dh' = r.dh
          /\ engine' = r.engine
          /\ call' = Called(1, dh, m, r, trained, decision)
    /\ feed' = [feed EXCEPT !.n = @ + 1]
    /\ UNCHANGED <<sessionVars, signalVars, lockVars, serverVars, sent>>

NextEngine ==
    \E m \in EngineInputs, trained \in TrainOutcomes, decision \in Decisions :
       EngineChunk(m, trained, decision)

SpecEngine == InitEngine /\ [][NextEngine]_vars

\* TradingEngine.is_ready_for_signals()
is_ready_for_signals ==
    /\ dh.historical_delimiter_seen
    /\ engine.model_ready
    /\ engine.historical_training_complete

\* C35: in a call of ApplicationCoordinator.process_data_chunk every decision
\* returned for a bar was computed on a window whose last bar is that bar,
\* and the training started by a batch of the chunk was given the bars of the
\* batch only.
C35_DecisionWindowEndsAtBar ==
    call.conn # 0 =>
       /\ \A k \in 1..Len(call.responses) :
             /\ call.window # <<>>
             /\ call.window[Len(call.window)] = call.bars[k]
       /\ call.historical => call.window = call.batch

\* C36: in every state of TradingEngine historical_training_complete implies
\* model_ready, and once is_ready_for_signals() is true it stays true after
\* every later operation, a training call that raises included.
C36_ReadinessMonotonic ==
    /\ [](engine.historical_training_complete => engine.model_ready)
    /\ [][is_ready_for_signals => is_ready_for_signals']_vars

\* the engine is ready, and the last call was a batch whose training raised
C36_Witness ==
    /\ is_ready_for_signals
    /\ call.historical /\ call.raised /\ ~call.trained

NeverReadyByBars ==
    [][(/\ dh.historical_delimiter_seen /\ engine.model_ready
        /\ ~engine.historical_training_complete
        /\ ~call'.historical)
          => ~is_ready_for_signals']_vars

\* C38: process_real_time_bar returns a signal other than HOLD only if the
\* delimiter had been seen and model_ready and historical_training_complete
\* were set when the call started; the call that sets model_ready returns
\* HOLD; bar_count grows by one in every call, whichever branch it takes and
\* whether or not it returns.
C38_SignalOnlyWhenReady ==
    [][feed'.n = feed.n + 1 =>
         /\ (~call'.historical /\ Len(call'.bars) = 1) =>
               /\ engine'.bar_count = engine.bar_count + 1
               /\ ~call'.raised =>
                     /\ Len(call'.responses) = 1
                     /\ call'.responses[1] # "HOLD" =>
                           /\ dh.historical_delimiter_seen
                           /\ engine.model_ready
                           /\ engine.historical_training_complete
                     /\ (~engine.model_ready /\ engine'.model_ready) =>
                           call'.responses[1] = "HOLD"
         /\ ~call'.raised =>
               engine'.bar_count = engine.bar_count + Len(call'.bars)
         /\ \A k \in 1..Len(call'.responses) :
               call'.responses[k] # "HOLD" => is_ready_for_signals']_vars

\* a ready engine has answered one bar with BUY
C38_Witness ==
    /\ ~call.historical /\ Len(call.bars) = 1
    /\ call.responses = <<"BUY">>
    /\ engine.bar_count > 1

\* C39: when the historical part of the buffer fails to parse in
\* DataHandler.process_data_chunk the error reaches the caller, the window
\* and historical_delimiter_seen are as before, and the buffer holds what
\* followed the delimiter: the batch text and the delimiter are gone.  The
\* flag is set only by a batch that parsed and is never cleared.
C39_FailedBatchLeavesHandler ==
    [][\A m \in BatchInputs \cup BarInputs :
          (feed'.n = feed.n + 1 /\ feed'.whole = m)
            => \E buf \in {dh.data_buffer \o m \o <<NL>>} :
                  /\ feed'.raised <=>
                        /\ Find(buf, DELIMITER) # 0
                        /\ ~process_historical_data(SplitOnce(buf, DELIMITER).head).ok
                  /\ feed'.raised =>
                        /\ dh'.df = dh.df
                        /\ dh'.historical_delimiter_seen = dh.historical_delimiter_seen
                        /\ dh'.data_buffer = SplitOnce(buf, DELIMITER).tail
                  /\ (dh'.historical_delimiter_seen /\ ~dh.historical_delimiter_seen) =>
                        /\ Find(buf, DELIMITER) # 0
                        /\ process_historical_data(SplitOnce(buf, DELIMITER).head).ok
                  /\ dh.historical_delimiter_seen => dh'.historical_delimiter_seen]_vars

\* a handler that holds a bar and has seen no batch was given a batch
\* without a record: the call raised, the bar is still the window, the
\* flag is clear, and the line break after the delimiter is in the buffer
C39_Witness ==
    /\ feed.raised /\ feed.whole = DELIMITER
    /\ Len(dh.df) = 1
    /\ ~dh.historical_delimiter_seen
    /\ dh.data_buffer = <<NL>>

\* the text passed to process_data_chunk so far
Fed == SubSeq(feed.whole, 1, Len(feed.whole) - Len(feed.rest))

\* C40: after a process_data_chunk call that returned, data_buffer holds no
\* line break; it is the trailing partial line: a suffix of all the text fed
\* so far that starts at the beginning of that text, after a line break or
\* after the delimiter.
C40_BufferIsPartialLine ==
    /\ ~Contains(dh.data_buffer, NL)
    /\ Len(dh.data_buffer) <= Len(Fed)
    /\ SubSeq(Fed, Len(Fed) - Len(dh.data_buffer) + 1, Len(Fed)) = dh.data_buffer
    /\ \E start \in {Len(Fed) - Len(dh.data_buffer)} :
          \/ start = 0
          \/ Fed[start] = NL
          \/ /\ start >= Len(DELIMITER)
             /\ SubSeq(Fed, start - Len(DELIMITER) + 1, start) = DELIMITER

\* the batch and a bar line after it were consumed, and the beginning of a
\* further line waits in the buffer
C40_Witness ==
    /\ dh.historical_delimiter_seen
    /\ \E i \in 1..Len(feed.frames) : feed.frames[i].kind = "bar"
    /\ dh.data_buffer # <<>>
    /\ feed.rest # <<>>

====
